---- MODULE Spec2Model ----
(***************************************************************************)
(* A model of zecrey-crypto's transaction circuits.                        *)
(*                                                                         *)
(* Part 1: zecrey VerifyTransaction                                        *)
(*   (zecrey/circuit/bn254/transactions/txConstraints.go).                 *)
(* One constraint-building pass over one witness tx.  The witness is drawn *)
(* in Init; the pass is the sequence of blocks of the function, one action *)
(* per block (one per iteration for the loops).  A constraint the pass     *)
(* emits is recorded by its label in emitted, and in violated when the     *)
(* witness does not satisfy it: the transaction is accepted when the pass  *)
(* ends with violated empty.                                               *)
(*                                                                         *)
(* Field elements are integers.  Curve points are elements of the cyclic   *)
(* group Z_GroupOrder written additively (base point 1, identity 0).       *)
(***************************************************************************)
EXTENDS Integers, Sequences, FiniteSets, TLC

VARIABLES
    witness,    \* the witness the pass was called with
    tx,         \* the function's copy of it, whose fields the pass sets
    pc,         \* the block of VerifyTransaction the pass is at
    idx,        \* the loop index of that block
    flags,      \* the nine type flags
    acc,        \* the running result c, pkProofs, tProofs
    hFunc,      \* the MiMC gadget
    emitted,    \* the labels of the constraints emitted so far, in order
    violated    \* those the witness does not satisfy

vars == <<witness, tx, pc, idx, flags, acc, hFunc, emitted, violated>>

----------------------------------------------------------------------------
(* Bounds of the model *)

\* order of the model's cyclic group
GroupOrder == 5
\* number of values a MiMC digest takes
HashRange == 7
\* depth of every Merkle tree: a path is a leaf and MerkleLevels siblings
MerkleLevels == 2
\* TxType ranges over 0..MaxTxType (the enumeration and values outside it)
MaxTxType == 9
\* number of values a circuit variable takes (the scalar field of the circuit)
FieldModulus == 7
\* a point coordinate of the ciphertext selection ranges over 0..MaxCoord
MaxCoord == 1
\* a level constant of the witness builder ranges over 1..MaxTreeLevels
MaxTreeLevels == 4

----------------------------------------------------------------------------
(* Program constants.  Their declarations lie outside src/; the values are *)
(* those the uses in txConstraints.go fix.                                 *)

TxTypeNoop == 0
TxTypeDeposit == 1
TxTypeLock == 2
TxTypeUnlock == 3
TxTypeTransfer == 4
TxTypeSwap == 5
TxTypeAddLiquidity == 6
TxTypeRemoveLiquidity == 7
TxTypeWithdraw == 8

NbAccountsPerTx == 4
NbAccountAssetsPerAccount == 3
MaxRangeProofCount == 3
NbTransferCount == 3

Slots == 0 .. (NbAccountsPerTx - 1)
AssetSlots == 0 .. (NbAccountAssetsPerAccount - 1)
RangeSlots == 0 .. (MaxRangeProofCount - 1)
TransferSlots == 0 .. (NbTransferCount - 1)
TxTypeEnum == {TxTypeNoop, TxTypeDeposit, TxTypeLock, TxTypeUnlock, TxTypeTransfer,
               TxTypeSwap, TxTypeAddLiquidity, TxTypeRemoveLiquidity, TxTypeWithdraw}
TxTypeValues == 0 .. MaxTxType

----------------------------------------------------------------------------
(* frontend.API arithmetic *)

Sub(a, b) == a - b
IsZero(a) == IF a = 0 THEN 1 ELSE 0
Or(a, b) == IF a = 1 \/ b = 1 THEN 1 ELSE 0
Select(flag, a, b) == IF flag = 1 THEN a ELSE b

(* std.EccTool over the model's group *)
ToolAdd(p, q) == (p + q) % GroupOrder
ToolNeg(p) == (GroupOrder - (p % GroupOrder)) % GroupOrder
ScalarBaseMul(s) == s % GroupOrder
ScalarMul(p, s) == (p * s) % GroupOrder

(* ElGamal ciphertexts, component-wise *)
\* the right component left as it was
encAddLeftOnly(C, D) == [CL |-> ToolAdd(C.CL, D.CL), CR |-> C.CR]

encAdd(C, D) == [CL |-> ToolAdd(C.CL, D.CL), CR |-> ToolAdd(C.CR, D.CR)]
negElgamal(C) == [CL |-> ToolNeg(C.CL), CR |-> ToolNeg(C.CR)]
zeroElgamal == [CL |-> 0, CR |-> 0]

(* gated equalities: the constraint holds iff the result is TRUE *)
IsVariableEqual(isEnabled, a, b) == (isEnabled = 1) => (a = b)
IsPointEqual(isEnabled, a, b) == (isEnabled = 1) => (a = b)

----------------------------------------------------------------------------
(* The MiMC gadget: a running digest h and the data written since the last *)
(* Sum.  Sum absorbs the data into h and returns h; only Reset clears h.   *)

RECURSIVE Absorb(_, _)
Absorb(h, data) ==
    IF data = <<>> THEN h
    ELSE Absorb((3 * h + Head(data) + 1) % HashRange, Tail(data))

NewMiMC == [h |-> 0, data |-> <<>>]
Write(hf, xs) == [hf EXCEPT !.data = @ \o xs]
Sum(hf) == Absorb(hf.h, hf.data)
Reset(hf) == NewMiMC
\* the digest of xs by a gadget found in state hf
HashOf(hf, xs) == Sum(Write(hf, xs))
\* std.WritePointIntoBuf
WritePointIntoBuf(hf, p) == Write(hf, <<p>>)

----------------------------------------------------------------------------
(* std.VerifyMerkleProof: fold the path bottom-up, compare with the root.  *)
(* A path is a function on 0..MerkleLevels (entry 0 is the leaf), a helper *)
(* a function on 0..MerkleLevels-1 (1: the sibling is the left child).     *)

RECURSIVE MerkleFold(_, _, _, _)
MerkleFold(hf, proofSet, helper, k) ==
    IF k = 0 THEN proofSet[0]
    ELSE LET node == MerkleFold(hf, proofSet, helper, k - 1)
             d1 == Select(helper[k - 1], proofSet[k], node)
             d2 == Select(helper[k - 1], node, proofSet[k])
         IN  HashOf(hf, <<d1, d2>>)

MerkleRootOf(hf, proofSet, helper) == MerkleFold(hf, proofSet, helper, MerkleLevels)

VerifyMerkleProof(isEnabled, hf, merkleRoot, proofSet, helper) ==
    IsVariableEqual(isEnabled, merkleRoot, MerkleRootOf(hf, proofSet, helper))

\* the state a gadget that hashed with hf leaves it in
Used(hf, digest) == [h |-> digest, data |-> <<>>]

----------------------------------------------------------------------------
(* The witnesses of the model.  A witness is built from a case: the        *)
(* TxType, which operation bundles hold an honest proof, and at most one   *)
(* fault in the proof material and one in the account material.  The       *)
(* account material is built bottom-up (records, sub-trees, state root,    *)
(* account leaf, account tree), a fault being applied at its layer and the *)
(* layers above built on top of it, so that a fault breaks one check.      *)

RECURSIVE Pow2(_)
\* a function as an explicit table: its values are computed once
Table(f) == f @@ f

Pow2(n) == IF n = 0 THEN 1 ELSE 2 * Pow2(n - 1)

LeafSlots == 0 .. (Pow2(MerkleLevels) - 1)

NodeSum(l, r) == HashOf(NewMiMC, <<l, r>>)

RECURSIVE TreeNode(_, _, _)
TreeNode(leaves, level, n) ==
    IF level = 0 THEN leaves[n]
    ELSE NodeSum(TreeNode(leaves, level - 1, 2 * n), TreeNode(leaves, level - 1, 2 * n + 1))

TreeRoot(leaves) == TreeNode(leaves, MerkleLevels, 0)

Sibling(n) == IF n % 2 = 0 THEN n + 1 ELSE n - 1

TreePath(leaves, i) ==
    Table([k \in 0 .. MerkleLevels |->
        IF k = 0 THEN leaves[i]
        ELSE TreeNode(leaves, k - 1, Sibling(i \div Pow2(k - 1)))])

TreeHelper(i) == [k \in 0 .. (MerkleLevels - 1) |-> (i \div Pow2(k)) % 2]

\* a path whose top sibling is not the tree's
BadPath(path) == [path EXCEPT ![MerkleLevels] = (@ + 1) % HashRange]

NoFault == [kind |-> "none", side |-> "before", slot |-> 0, j |-> 0]

RecordFaultKinds == {"AccountIndex", "AccountName", "AccountPk", "AssetId",
                     "ChainId", "LockedAssetId", "PairIndex"}
HashFaultKinds == {"AssetsPath", "LockedPath", "LiquidityPath", "StateRoot",
                   "Leaf", "AccountPath"}

AccountFaults ==
    {NoFault}
    \cup {[kind |-> k, side |-> "after", slot |-> i, j |-> 0] :
            k \in RecordFaultKinds \ {"AssetId"}, i \in Slots}
    \cup {[kind |-> "AssetId", side |-> "after", slot |-> i, j |-> j] :
            i \in Slots, j \in AssetSlots}
    \cup {[kind |-> k, side |-> s, slot |-> i, j |-> 0] :
            k \in HashFaultKinds, s \in {"before", "after"}, i \in Slots}
    \cup {[kind |-> "AssetsPath", side |-> "before", slot |-> i, j |-> j] :
            i \in Slots, j \in AssetSlots \ {0}}

Hit(af, kind, side, i) == af.kind = kind /\ af.side = side /\ af.slot = i

Sk(i) == (i % (GroupOrder - 1)) + 1

\* the record of slot i before the transaction, its roots not yet set
BaseRecord(i) ==
    [AccountIndex |-> i + 1,
     AccountName |-> i + 11,
     AccountPk |-> ScalarBaseMul(Sk(i)),
     StateRoot |-> 0,
     AccountAssetsRoot |-> 0,
     AccountLockedAssetsRoot |-> 0,
     AccountLiquidityRoot |-> 0,
     AssetsInfo |-> [j \in AssetSlots |->
        [AssetId |-> j + 1,
         BalanceEnc |-> [CL |-> (i + j) % GroupOrder, CR |-> (i + 2 * j + 1) % GroupOrder]]],
     LockedAssetInfo |-> [ChainId |-> 1, AssetId |-> 2, LockedAmount |-> i + 3],
     LiquidityInfo |-> [PairIndex |-> 1, AssetAId |-> 1, AssetBId |-> 2,
                        AssetA |-> 4, AssetB |-> 5,
                        LpEnc |-> [CL |-> (i + 2) % GroupOrder, CR |-> (i + 3) % GroupOrder]]]

\* the record after the transaction: a balance moved, and the case's fault
FaultedRecord(r, af) ==
    CASE af.kind = "AccountIndex" -> [r EXCEPT !.AccountIndex = @ + 1]
      [] af.kind = "AccountName" -> [r EXCEPT !.AccountName = @ + 1]
      [] af.kind = "AccountPk" -> [r EXCEPT !.AccountPk = (@ + 1) % GroupOrder]
      [] af.kind = "AssetId" -> [r EXCEPT !.AssetsInfo[af.j].AssetId = @ + 1]
      [] af.kind = "ChainId" -> [r EXCEPT !.LockedAssetInfo.ChainId = @ + 1]
      [] af.kind = "LockedAssetId" -> [r EXCEPT !.LockedAssetInfo.AssetId = @ + 1]
      [] af.kind = "PairIndex" -> [r EXCEPT !.LiquidityInfo.PairIndex = @ + 1]
      [] OTHER -> r

SideRecord(i, side, af) ==
    LET b == BaseRecord(i)
        a == [b EXCEPT !.AssetsInfo[0].BalanceEnc.CL = (@ + 1) % GroupOrder]
    IN  IF side = "before" THEN b
        ELSE IF af.side = "after" /\ af.slot = i THEN FaultedRecord(a, af) ELSE a

AssetLeaves(r) ==
    Table([n \in LeafSlots |->
        IF n \in AssetSlots
        THEN HashOf(NewMiMC, <<r.AssetsInfo[n].AssetId, r.AssetsInfo[n].BalanceEnc.CL,
                               r.AssetsInfo[n].BalanceEnc.CR>>)
        ELSE 0])

LockedLeaves(r) ==
    Table([n \in LeafSlots |->
        IF n = 0
        THEN HashOf(NewMiMC, <<r.LockedAssetInfo.ChainId, r.LockedAssetInfo.AssetId,
                               r.LockedAssetInfo.LockedAmount>>)
        ELSE 0])

LiquidityLeaves(r) ==
    Table([n \in LeafSlots |->
        IF n = 0
        THEN HashOf(NewMiMC, <<r.LiquidityInfo.PairIndex, r.LiquidityInfo.AssetAId,
                               r.LiquidityInfo.AssetBId, r.LiquidityInfo.AssetA,
                               r.LiquidityInfo.AssetB, r.LiquidityInfo.LpEnc.CL,
                               r.LiquidityInfo.LpEnc.CR>>)
        ELSE 0])

WithStateRoot(r, ar, lr, qr, bad) ==
    [r EXCEPT !.AccountAssetsRoot = ar,
              !.AccountLockedAssetsRoot = lr,
              !.AccountLiquidityRoot = qr,
              !.StateRoot = (HashOf(NewMiMC, <<ar, lr, qr>>) + (IF bad THEN 1 ELSE 0)) % HashRange]

WithRoots(r, bad) ==
    WithStateRoot(r, TreeRoot(AssetLeaves(r)), TreeRoot(LockedLeaves(r)),
                  TreeRoot(LiquidityLeaves(r)), bad)

\* the record of slot i on a side, with its sub-roots and state root
BuiltRecord(i, side, af) == WithRoots(SideRecord(i, side, af), Hit(af, "StateRoot", side, i))

Records(side, af) ==
    Table([i \in Slots |-> BuiltRecord(i, side, af)])

AccountLeafOf(r) ==
    HashOf(NewMiMC, <<r.AccountIndex, r.AccountName, r.AccountPk, r.StateRoot>>)

\* the leaves of the account tree on a side: slot i is leaf i
AccountLeaves(recs, side, af) ==
    Table([n \in LeafSlots |->
        IF n \in Slots
        THEN (AccountLeafOf(recs[n]) + (IF Hit(af, "Leaf", side, n) THEN 1 ELSE 0)) % HashRange
        ELSE 0])

FaultedPath(path, bad) == IF bad THEN BadPath(path) ELSE path

----------------------------------------------------------------------------
(* Operation bundles.  Every bundle carries its public fields, named as in *)
(* the source, and its Sigma-protocol material: per range-proof slot a     *)
(* secret-key proof (A_pk, Z_sk, Z_skInv) and a T proof (A_T, Z_bar_r and  *)
(* the ciphertext delta CDelta), and ParamsOk, which stands for the        *)
(* operation's own equations (they are gated by the bundle's IsEnabled).   *)

Ops == {"Unlock", "Transfer", "Swap", "AddLiquidity", "RemoveLiquidity", "Withdraw"}

OpIndex(op) ==
    CASE op = "Unlock" -> 0 [] op = "Transfer" -> 1 [] op = "Swap" -> 2
      [] op = "AddLiquidity" -> 3 [] op = "RemoveLiquidity" -> 4 [] op = "Withdraw" -> 5

OpField(op) ==
    CASE op = "Unlock" -> "UnlockProof" [] op = "Transfer" -> "TransferProof"
      [] op = "Swap" -> "SwapProof" [] op = "AddLiquidity" -> "AddLiquidityProof"
      [] op = "RemoveLiquidity" -> "RemoveLiquidityProof" [] op = "Withdraw" -> "WithdrawProof"

ActiveOp(txType) ==
    CASE txType = TxTypeUnlock -> "Unlock" [] txType = TxTypeTransfer -> "Transfer"
      [] txType = TxTypeSwap -> "Swap" [] txType = TxTypeAddLiquidity -> "AddLiquidity"
      [] txType = TxTypeRemoveLiquidity -> "RemoveLiquidity"
      [] txType = TxTypeWithdraw -> "Withdraw" [] OTHER -> "None"

EmptyMaterial ==
    [IsEnabled |-> 0,
     ParamsOk |-> FALSE,
     PkProofs |-> [i \in RangeSlots |-> [A_pk |-> 0, Z_sk |-> 0, Z_skInv |-> 0]],
     TProofs |-> [i \in RangeSlots |-> [A_T |-> 0, Z_bar_r |-> 0, CDelta |-> zeroElgamal]]]

SetEmptyDepositOrLockWitness == [IsEnabled |-> 0, AccountIndex |-> 0, Amount |-> 0]

SetEmptyUnlockProofWitness ==
    EmptyMaterial @@
    [ChainId |-> 0, AssetId |-> 0, Pk |-> 0, Balance |-> 0, C_fee |-> zeroElgamal,
     GasFeeAssetId |-> 0, T_fee |-> 0]

SetEmptyTransferProofWitness ==
    EmptyMaterial @@
    [AssetId |-> 0,
     SubProofs |-> [i \in TransferSlots |-> [Y |-> 0, T |-> 0, Pk |-> 0, C |-> zeroElgamal]]]

SetEmptySwapProofWitness ==
    EmptyMaterial @@
    [C_uA |-> zeroElgamal, Pk_u |-> 0, AssetAId |-> 0, AssetBId |-> 0, Pk_pool |-> 0,
     B_poolA |-> 0, B_poolB |-> 0, Pk_treasury |-> 0, C_fee |-> zeroElgamal,
     GasFeeAssetId |-> 0, T_uA |-> 0, T_fee |-> 0]

SetEmptyAddLiquidityProofWitness ==
    EmptyMaterial @@
    [C_uA |-> zeroElgamal, C_uB |-> zeroElgamal, Pk_u |-> 0, AssetAId |-> 0, AssetBId |-> 0,
     Pk_pool |-> 0, B_poolA |-> 0, B_poolB |-> 0, C_fee |-> zeroElgamal, GasFeeAssetId |-> 0,
     T_uA |-> 0, T_uB |-> 0, T_fee |-> 0]

SetEmptyRemoveLiquidityProofWitness ==
    EmptyMaterial @@
    [C_u_LP |-> zeroElgamal, Pk_u |-> 0, AssetAId |-> 0, AssetBId |-> 0, Pk_pool |-> 0,
     B_pool_A |-> 0, B_pool_B |-> 0, C_fee |-> zeroElgamal, GasFeeAssetId |-> 0,
     T_uLP |-> 0, T_fee |-> 0]

SetEmptyWithdrawProofWitness ==
    EmptyMaterial @@
    [AssetId |-> 0, Pk |-> 0, C |-> zeroElgamal, C_fee |-> zeroElgamal, GasFeeAssetId |-> 0,
     T |-> 0, T_fee |-> 0]

SetEmptyCtRangeProofWitness == [A |-> 0, Ok |-> TRUE, IsEnabled |-> 0]

EmptyBundle(op) ==
    CASE op = "Unlock" -> SetEmptyUnlockProofWitness
      [] op = "Transfer" -> SetEmptyTransferProofWitness
      [] op = "Swap" -> SetEmptySwapProofWitness
      [] op = "AddLiquidity" -> SetEmptyAddLiquidityProofWitness
      [] op = "RemoveLiquidity" -> SetEmptyRemoveLiquidityProofWitness
      [] op = "Withdraw" -> SetEmptyWithdrawProofWitness

(* The public key, the range-proof commitment T and the balance ciphertext *)
(* that slot i of an operation's Sigma material is about.                  *)
PkAt(op, b, i) ==
    CASE op = "Transfer" -> b.SubProofs[i].Pk
      [] op \in {"Unlock", "Withdraw"} -> b.Pk
      [] OTHER -> b.Pk_u

TAt(op, b, i) ==
    CASE op = "Unlock" -> b.T_fee
      [] op = "Transfer" -> b.SubProofs[i].T
      [] op = "Swap" -> IF i = 0 THEN b.T_uA ELSE b.T_fee
      [] op = "AddLiquidity" -> IF i = 0 THEN b.T_uA ELSE IF i = 1 THEN b.T_uB ELSE b.T_fee
      [] op = "RemoveLiquidity" -> IF i = 0 THEN b.T_uLP ELSE b.T_fee
      [] op = "Withdraw" -> IF i = 0 THEN b.T ELSE b.T_fee

CAt(op, b, i) ==
    CASE op = "Unlock" -> b.C_fee
      [] op = "Transfer" -> b.SubProofs[i].C
      [] op = "Swap" -> IF i = 0 THEN b.C_uA ELSE b.C_fee
      [] op = "AddLiquidity" -> IF i = 0 THEN b.C_uA ELSE IF i = 1 THEN b.C_uB ELSE b.C_fee
      [] op = "RemoveLiquidity" -> IF i = 0 THEN b.C_u_LP ELSE b.C_fee
      [] op = "Withdraw" -> IF i = 0 THEN b.C ELSE b.C_fee

EncSeq(C) == <<C.CL, C.CR>>

RECURSIVE SubProofSeq(_, _)
SubProofSeq(b, i) ==
    IF i = NbTransferCount THEN <<>>
    ELSE <<b.SubProofs[i].Y, b.SubProofs[i].T, b.SubProofs[i].Pk>>
         \o EncSeq(b.SubProofs[i].C) \o SubProofSeq(b, i + 1)

\* the public fields of a bundle, in the order they are absorbed
PublicSeq(op, b) ==
    CASE op = "Unlock" ->
            <<b.ChainId, b.AssetId, b.Pk, b.Balance>> \o EncSeq(b.C_fee)
            \o <<b.GasFeeAssetId, b.T_fee>>
      [] op = "Transfer" -> <<b.AssetId>> \o SubProofSeq(b, 0)
      [] op = "Swap" ->
            EncSeq(b.C_uA) \o <<b.Pk_u, b.AssetAId, b.AssetBId, b.Pk_pool, b.B_poolA,
                                b.B_poolB, b.Pk_treasury>>
            \o EncSeq(b.C_fee) \o <<b.GasFeeAssetId, b.T_uA, b.T_fee>>
      [] op = "AddLiquidity" ->
            EncSeq(b.C_uA) \o EncSeq(b.C_uB)
            \o <<b.Pk_u, b.AssetAId, b.AssetBId, b.Pk_pool, b.B_poolA, b.B_poolB>>
            \o EncSeq(b.C_fee) \o <<b.GasFeeAssetId, b.T_uA, b.T_uB, b.T_fee>>
      [] op = "RemoveLiquidity" ->
            EncSeq(b.C_u_LP)
            \o <<b.Pk_u, b.AssetAId, b.AssetBId, b.Pk_pool, b.B_pool_A, b.B_pool_B>>
            \o EncSeq(b.C_fee) \o <<b.GasFeeAssetId, b.T_uLP, b.T_fee>>
      [] op = "Withdraw" ->
            <<b.AssetId, b.Pk>> \o EncSeq(b.C) \o EncSeq(b.C_fee)
            \o <<b.GasFeeAssetId, b.T, b.T_fee>>

RECURSIVE CommitSeq(_, _)
CommitSeq(b, i) ==
    IF i = MaxRangeProofCount THEN <<>>
    ELSE <<b.PkProofs[i].A_pk, b.TProofs[i].A_T>> \o EncSeq(b.TProofs[i].CDelta)
         \o CommitSeq(b, i + 1)

\* the Fiat-Shamir challenge of a bundle, computed with the gadget as found
Challenge(op, b, hf) == HashOf(hf, <<OpIndex(op)>> \o PublicSeq(op, b) \o CommitSeq(b, 0))

(* std.Verify<Op>Proof: the challenge and, per slot, the material of the   *)
(* two Sigma equations; the operation's own equations hold iff ownOk.      *)
VerifyProof(op, b, hf) ==
    [c |-> Challenge(op, b, hf),
     ownOk |-> (b.IsEnabled = 1) => b.ParamsOk,
     pkProofs |-> Table([i \in RangeSlots |->
        [Pk_u |-> PkAt(op, b, i),
         A_pk_u |-> b.PkProofs[i].A_pk,
         Z_sk_u |-> b.PkProofs[i].Z_sk,
         Z_sk_uInv |-> b.PkProofs[i].Z_skInv]]),
     tProofs |-> Table([i \in RangeSlots |->
        [T |-> TAt(op, b, i),
         C_PrimeNeg |-> negElgamal(encAdd(CAt(op, b, i), b.TProofs[i].CDelta)),
         A_T_C_RPrimeInv |-> b.TProofs[i].A_T,
         Z_bar_r |-> b.TProofs[i].Z_bar_r]])]

VerifyUnlockProof(b, hf) == VerifyProof("Unlock", b, hf)
VerifyTransferProof(b, hf) == VerifyProof("Transfer", b, hf)
VerifySwapProof(b, hf) == VerifyProof("Swap", b, hf)
VerifyAddLiquidityProof(b, hf) == VerifyProof("AddLiquidity", b, hf)
VerifyRemoveLiquidityProof(b, hf) == VerifyProof("RemoveLiquidity", b, hf)
VerifyWithdrawProof(b, hf) == VerifyProof("Withdraw", b, hf)

\* std.VerifyCtRangeProof: the bit decomposition holds iff Ok
VerifyCtRangeProof(rangeProof) == (rangeProof.IsEnabled = 1) => rangeProof.Ok

----------------------------------------------------------------------------
(* VerifyTransaction: the pure parts of its blocks *)

\* the Withdraw flag compared with the Transfer constant
TxFlagsWithdrawAsTransfer(txType) ==
    [isNoopTx |-> IsZero(Sub(txType, TxTypeNoop)),
     isDepositTx |-> IsZero(Sub(txType, TxTypeDeposit)),
     isLockTx |-> IsZero(Sub(txType, TxTypeLock)),
     isUnlockTx |-> IsZero(Sub(txType, TxTypeUnlock)),
     isTransferTx |-> IsZero(Sub(txType, TxTypeTransfer)),
     isSwapTx |-> IsZero(Sub(txType, TxTypeSwap)),
     isAddLiquidityTx |-> IsZero(Sub(txType, TxTypeAddLiquidity)),
     isRemoveLiquidityTx |-> IsZero(Sub(txType, TxTypeRemoveLiquidity)),
     isWithdrawTx |-> IsZero(Sub(txType, TxTypeTransfer))]

\* compute tx type: the nine flags
TxFlags(txType) ==
    [isNoopTx |-> IsZero(Sub(txType, TxTypeNoop)),
     isDepositTx |-> IsZero(Sub(txType, TxTypeDeposit)),
     isLockTx |-> IsZero(Sub(txType, TxTypeLock)),
     isUnlockTx |-> IsZero(Sub(txType, TxTypeUnlock)),
     isTransferTx |-> IsZero(Sub(txType, TxTypeTransfer)),
     isSwapTx |-> IsZero(Sub(txType, TxTypeSwap)),
     isAddLiquidityTx |-> IsZero(Sub(txType, TxTypeAddLiquidity)),
     isRemoveLiquidityTx |-> IsZero(Sub(txType, TxTypeRemoveLiquidity)),
     isWithdrawTx |-> IsZero(Sub(txType, TxTypeWithdraw))]

FlagNames == {"isNoopTx", "isDepositTx", "isLockTx", "isUnlockTx", "isTransferTx",
              "isSwapTx", "isAddLiquidityTx", "isRemoveLiquidityTx", "isWithdrawTx"}

\* the IsEnabled of every bundle is its flag
SetIsEnabled(t, f) ==
    [t EXCEPT !.DepositTxInfo.IsEnabled = f.isDepositTx,
              !.LockTxInfo.IsEnabled = f.isLockTx,
              !.UnlockProof.IsEnabled = f.isUnlockTx,
              !.TransferProof.IsEnabled = f.isTransferTx,
              !.SwapProof.IsEnabled = f.isSwapTx,
              !.AddLiquidityProof.IsEnabled = f.isAddLiquidityTx,
              !.RemoveLiquidityProof.IsEnabled = f.isRemoveLiquidityTx,
              !.WithdrawProof.IsEnabled = f.isWithdrawTx]

\* the account checks switched off by the Deposit flag
IsCheckAccountNotDeposit(f) == IsZero(f.isDepositTx)

IsCheckAccount(f) == IsZero(f.isNoopTx)

\* the range proofs switched off for Noop as well
RangeProofIsEnabledNotNoop(f) == IsZero(Or(Or(f.isDepositTx, f.isLockTx), f.isNoopTx))

\* the enable flag of the range proofs
RangeProofIsEnabled(f) == IsZero(Or(f.isDepositTx, f.isLockTx))

\* the loop's last statement: slot i of the range proofs is Y of sub-proof i
SetTransferY(t, i) == [t EXCEPT !.TransferProof.SubProofs[i].Y = t.RangeProofs[i].A]

\* the Swap fee commitment routed from slot 0
SetTSwapFeeFromSlot0(t) ==
    [t EXCEPT !.UnlockProof.T_fee = t.RangeProofs[0].A,
              !.TransferProof.SubProofs =
                    [i \in TransferSlots |-> [@[i] EXCEPT !.T = t.RangeProofs[i].A]],
              !.SwapProof.T_uA = t.RangeProofs[0].A,
              !.SwapProof.T_fee = t.RangeProofs[0].A,
              !.AddLiquidityProof.T_uA = t.RangeProofs[0].A,
              !.AddLiquidityProof.T_uB = t.RangeProofs[1].A,
              !.AddLiquidityProof.T_fee = t.RangeProofs[2].A,
              !.RemoveLiquidityProof.T_uLP = t.RangeProofs[0].A,
              !.RemoveLiquidityProof.T_fee = t.RangeProofs[1].A,
              !.WithdrawProof.T = t.RangeProofs[0].A,
              !.WithdrawProof.T_fee = t.RangeProofs[1].A]

\* set T or Y
SetT(t) ==
    [t EXCEPT !.UnlockProof.T_fee = t.RangeProofs[0].A,
              !.TransferProof.SubProofs =
                    [i \in TransferSlots |-> [@[i] EXCEPT !.T = t.RangeProofs[i].A]],
              !.SwapProof.T_uA = t.RangeProofs[0].A,
              !.SwapProof.T_fee = t.RangeProofs[1].A,
              !.AddLiquidityProof.T_uA = t.RangeProofs[0].A,
              !.AddLiquidityProof.T_uB = t.RangeProofs[1].A,
              !.AddLiquidityProof.T_fee = t.RangeProofs[2].A,
              !.RemoveLiquidityProof.T_uLP = t.RangeProofs[0].A,
              !.RemoveLiquidityProof.T_fee = t.RangeProofs[1].A,
              !.WithdrawProof.T = t.RangeProofs[0].A,
              !.WithdrawProof.T_fee = t.RangeProofs[1].A]

\* set public data, per operation
SetUnlockPublic(t) ==
    [t EXCEPT !.UnlockProof.ChainId = t.AccountsInfoBefore[0].LockedAssetInfo.ChainId,
              !.UnlockProof.AssetId = t.AccountsInfoBefore[0].LockedAssetInfo.AssetId,
              !.UnlockProof.Pk = t.AccountsInfoBefore[0].AccountPk,
              !.UnlockProof.Balance = t.AccountsInfoBefore[0].LockedAssetInfo.LockedAmount,
              !.UnlockProof.C_fee = t.AccountsInfoBefore[0].AssetsInfo[1].BalanceEnc,
              !.UnlockProof.GasFeeAssetId = t.AccountsInfoBefore[0].AssetsInfo[1].AssetId]

SetTransferPublic(t) ==
    [t EXCEPT !.TransferProof.AssetId = t.AccountsInfoBefore[0].AssetsInfo[0].AssetId,
              !.TransferProof.SubProofs =
                    [i \in TransferSlots |->
                        [@[i] EXCEPT !.Pk = t.AccountsInfoBefore[i].AccountPk,
                                     !.C = t.AccountsInfoBefore[i].AssetsInfo[0].BalanceEnc]]]

SetSwapPublic(t) ==
    [t EXCEPT !.SwapProof.C_uA = t.AccountsInfoBefore[0].AssetsInfo[0].BalanceEnc,
              !.SwapProof.Pk_u = t.AccountsInfoBefore[0].AccountPk,
              !.SwapProof.AssetAId = t.AccountsInfoBefore[1].LiquidityInfo.AssetAId,
              !.SwapProof.AssetBId = t.AccountsInfoBefore[1].LiquidityInfo.AssetBId,
              !.SwapProof.Pk_pool = t.AccountsInfoBefore[1].AccountPk,
              !.SwapProof.B_poolA = t.AccountsInfoBefore[1].LiquidityInfo.AssetA,
              !.SwapProof.B_poolB = t.AccountsInfoBefore[1].LiquidityInfo.AssetB,
              !.SwapProof.Pk_treasury = t.AccountsInfoBefore[2].AccountPk,
              !.SwapProof.C_fee = t.AccountsInfoBefore[0].AssetsInfo[2].BalanceEnc,
              !.SwapProof.GasFeeAssetId = t.AccountsInfoBefore[0].AssetsInfo[2].AssetId]

SetAddLiquidityPublic(t) ==
    [t EXCEPT !.AddLiquidityProof.C_uA = t.AccountsInfoBefore[0].AssetsInfo[0].BalanceEnc,
              !.AddLiquidityProof.C_uB = t.AccountsInfoBefore[0].AssetsInfo[1].BalanceEnc,
              !.AddLiquidityProof.Pk_u = t.AccountsInfoBefore[0].AccountPk,
              !.AddLiquidityProof.AssetAId = t.AccountsInfoBefore[1].LiquidityInfo.AssetAId,
              !.AddLiquidityProof.AssetBId = t.AccountsInfoBefore[1].LiquidityInfo.AssetBId,
              !.AddLiquidityProof.Pk_pool = t.AccountsInfoBefore[1].AccountPk,
              !.AddLiquidityProof.B_poolA = t.AccountsInfoBefore[1].LiquidityInfo.AssetA,
              !.AddLiquidityProof.B_poolB = t.AccountsInfoBefore[1].LiquidityInfo.AssetB,
              !.AddLiquidityProof.C_fee = t.AccountsInfoBefore[0].AssetsInfo[2].BalanceEnc,
              !.AddLiquidityProof.GasFeeAssetId = t.AccountsInfoBefore[0].AssetsInfo[2].AssetId]

SetRemoveLiquidityPublic(t) ==
    [t EXCEPT !.RemoveLiquidityProof.C_u_LP = t.AccountsInfoBefore[0].LiquidityInfo.LpEnc,
              !.RemoveLiquidityProof.Pk_u = t.AccountsInfoBefore[0].AccountPk,
              !.RemoveLiquidityProof.AssetAId = t.AccountsInfoBefore[1].LiquidityInfo.AssetAId,
              !.RemoveLiquidityProof.AssetBId = t.AccountsInfoBefore[1].LiquidityInfo.AssetBId,
              !.RemoveLiquidityProof.Pk_pool = t.AccountsInfoBefore[1].AccountPk,
              !.RemoveLiquidityProof.B_pool_A = t.AccountsInfoBefore[1].LiquidityInfo.AssetA,
              !.RemoveLiquidityProof.B_pool_B = t.AccountsInfoBefore[1].LiquidityInfo.AssetB,
              !.RemoveLiquidityProof.C_fee = t.AccountsInfoBefore[0].AssetsInfo[2].BalanceEnc,
              !.RemoveLiquidityProof.GasFeeAssetId = t.AccountsInfoBefore[0].AssetsInfo[2].AssetId]

SetWithdrawPublic(t) ==
    [t EXCEPT !.WithdrawProof.AssetId = t.AccountsInfoBefore[0].AssetsInfo[0].AssetId,
              !.WithdrawProof.Pk = t.AccountsInfoBefore[0].AccountPk,
              !.WithdrawProof.C_fee = t.AccountsInfoBefore[0].AssetsInfo[1].BalanceEnc,
              !.WithdrawProof.GasFeeAssetId = t.AccountsInfoBefore[0].AssetsInfo[1].AssetId]


\* SelectCommonPart: the three parts of the running result, by one flag
SelectCommonPart(flag, check, cur) ==
    [c |-> Select(flag, check.c, cur.c),
     pkProofs |-> Table([i \in RangeSlots |->
        [Pk_u |-> Select(flag, check.pkProofs[i].Pk_u, cur.pkProofs[i].Pk_u),
         A_pk_u |-> Select(flag, check.pkProofs[i].A_pk_u, cur.pkProofs[i].A_pk_u),
         Z_sk_u |-> Select(flag, check.pkProofs[i].Z_sk_u, cur.pkProofs[i].Z_sk_u),
         Z_sk_uInv |-> Select(flag, check.pkProofs[i].Z_sk_uInv, cur.pkProofs[i].Z_sk_uInv)]]),
     tProofs |-> Table([i \in RangeSlots |->
        [T |-> Select(flag, check.tProofs[i].T, cur.tProofs[i].T),
         C_PrimeNeg |-> Select(flag, check.tProofs[i].C_PrimeNeg, cur.tProofs[i].C_PrimeNeg),
         A_T_C_RPrimeInv |->
            Select(flag, check.tProofs[i].A_T_C_RPrimeInv, cur.tProofs[i].A_T_C_RPrimeInv),
         Z_bar_r |-> Select(flag, check.tProofs[i].Z_bar_r, cur.tProofs[i].Z_bar_r)]])]

\* the running result of a verified bundle
CommonPart(v) == [c |-> v.c, pkProofs |-> v.pkProofs, tProofs |-> v.tProofs]

\* the two Sigma equations of slot i on the running result
PkEquation(enabled, a, i) ==
    LET l1 == ScalarBaseMul(a.pkProofs[i].Z_sk_u)
        r1 == ToolAdd(a.pkProofs[i].A_pk_u, ScalarMul(a.pkProofs[i].Pk_u, a.c))
    IN  IsPointEqual(enabled, l1, r1)

TEquation(enabled, a, i) ==
    LET l2 == ToolAdd(ScalarBaseMul(a.tProofs[i].Z_bar_r),
                      ScalarMul(a.tProofs[i].C_PrimeNeg.CL, a.pkProofs[i].Z_sk_uInv))
        r2 == ToolAdd(a.tProofs[i].A_T_C_RPrimeInv,
                      ScalarMul(ToolAdd(a.tProofs[i].T, a.tProofs[i].C_PrimeNeg.CR), a.c))
    IN  IsPointEqual(enabled, l2, r2)

----------------------------------------------------------------------------
(* Honest Sigma material for a bundle whose public fields are set: the     *)
(* prover knows the secret key behind PkAt and opens the T statement       *)
(*   T + C_PrimeNeg.CR = g^bar_r + (C_PrimeNeg.CL)^skInv.                  *)

SkAt(op, i) == IF op = "Transfer" THEN Sk(i) ELSE Sk(0)

Nonce(op, i) == (i + 1 + OpIndex(op)) % GroupOrder
BarR(i) == (i + 2) % GroupOrder
PrimeNegCL(op, b, i) == ToolNeg(ToolAdd(CAt(op, b, i).CL, 1))

StatementCR(op, b, i, cl) ==
    ToolAdd(ToolAdd(ScalarBaseMul(BarR(i)), ScalarMul(cl, SkAt(op, i))),
            ToolNeg(TAt(op, b, i)))

CommitT(op, b, i, cl) ==
    [A_T |-> ToolAdd(ScalarBaseMul(2), ScalarMul(cl, 1)),
     Z_bar_r |-> 0,
     CDelta |-> [CL |-> 1,
                 CR |-> ToolAdd(ToolNeg(StatementCR(op, b, i, cl)),
                                ToolNeg(CAt(op, b, i).CR))]]

Commit(op, b) ==
    [b EXCEPT !.ParamsOk = TRUE,
              !.PkProofs = Table([i \in RangeSlots |->
                    [A_pk |-> ScalarBaseMul(Nonce(op, i)), Z_sk |-> 0, Z_skInv |-> 0]]),
              !.TProofs = Table([i \in RangeSlots |-> CommitT(op, b, i, PrimeNegCL(op, b, i))])]

RespondTo(op, m, c) ==
    [m EXCEPT
        !.PkProofs = Table([i \in RangeSlots |->
            [@[i] EXCEPT !.Z_sk = (Nonce(op, i) + c * SkAt(op, i)) % GroupOrder,
                         !.Z_skInv = (1 + c * SkAt(op, i)) % GroupOrder]]),
        !.TProofs = Table([i \in RangeSlots |->
            [@[i] EXCEPT !.Z_bar_r = (2 + c * BarR(i)) % GroupOrder]])]

Respond(op, m) == RespondTo(op, m, Challenge(op, m, NewMiMC))

HonestMaterial(op, b) == Respond(op, Commit(op, b))

NoProofFault == [kind |-> "none", op |-> "Unlock", slot |-> 0]

ProofFaults ==
    {NoProofFault}
    \cup {[kind |-> k, op |-> o, slot |-> i] :
            k \in {"Z_sk", "Z_bar_r"}, o \in Ops, i \in RangeSlots}
    \cup {[kind |-> "Range", op |-> "Unlock", slot |-> i] : i \in RangeSlots}
    \cup {[kind |-> "ForeignC", op |-> "Withdraw", slot |-> 0]}

FaultedMaterial(op, b, pf) ==
    IF pf.op # op THEN b
    ELSE CASE pf.kind = "Z_sk" ->
                [b EXCEPT !.PkProofs[pf.slot].Z_sk = (@ + 1) % GroupOrder]
           [] pf.kind = "Z_bar_r" ->
                [b EXCEPT !.TProofs[pf.slot].Z_bar_r = (@ + 1) % GroupOrder]
           [] OTHER -> b

Configs == {"natural", "allValid", "allEmpty"}

HonestOps(cs) ==
    CASE cs.config = "natural" -> {ActiveOp(cs.txType)} \cap Ops
      [] cs.config = "allValid" -> Ops
      [] OTHER -> {}

Cases ==
    {[txType |-> t, config |-> k, pf |-> p, af |-> NoFault] :
        t \in TxTypeValues, k \in Configs, p \in ProofFaults}
    \cup {[txType |-> t, config |-> k, pf |-> NoProofFault, af |-> a] :
        t \in TxTypeValues, k \in {"natural", "allValid"}, a \in AccountFaults}

AccountPaths(leaves, side, af) ==
    [i \in Slots |-> FaultedPath(TreePath(leaves, i), Hit(af, "AccountPath", side, i))]

LockedPaths(recs, side, af) ==
    [i \in Slots |->
        FaultedPath(TreePath(LockedLeaves(recs[i]), 0), Hit(af, "LockedPath", side, i))]

LiquidityPaths(recs, side, af) ==
    [i \in Slots |->
        FaultedPath(TreePath(LiquidityLeaves(recs[i]), 0), Hit(af, "LiquidityPath", side, i))]

AssetsPathsBefore(recs, af) ==
    [i \in Slots |-> [j \in AssetSlots |->
        FaultedPath(TreePath(AssetLeaves(recs[i]), j),
                    Hit(af, "AssetsPath", "before", i) /\ af.j = j)]]

AssetsPathsAfter(recs, af) ==
    [i \in Slots |->
        FaultedPath(TreePath(AssetLeaves(recs[i]), 0), Hit(af, "AssetsPath", "after", i))]

DepositOrLockWitness(cs, txType) ==
    IF cs.txType = txType /\ cs.config # "allEmpty"
    THEN [IsEnabled |-> 1, AccountIndex |-> 1, Amount |-> 1]
    ELSE SetEmptyDepositOrLockWitness

RangeProofWitness(cs, k) ==
    IF cs.config # "natural" \/ ActiveOp(cs.txType) \in Ops
    THEN [A |-> (k + 2) % GroupOrder,
          Ok |-> ~(cs.pf.kind = "Range" /\ cs.pf.slot = k),
          IsEnabled |-> 1]
    ELSE [SetEmptyCtRangeProofWitness EXCEPT
            !.Ok = ~(cs.pf.kind = "Range" /\ cs.pf.slot = k)]

RawTxWith(cs, recB, recA, leavesB, leavesA) ==
    [TxType |-> cs.txType,
     DepositTxInfo |-> DepositOrLockWitness(cs, TxTypeDeposit),
     LockTxInfo |-> DepositOrLockWitness(cs, TxTypeLock),
     UnlockProof |-> SetEmptyUnlockProofWitness,
     TransferProof |-> SetEmptyTransferProofWitness,
     SwapProof |-> SetEmptySwapProofWitness,
     AddLiquidityProof |-> SetEmptyAddLiquidityProofWitness,
     RemoveLiquidityProof |-> SetEmptyRemoveLiquidityProofWitness,
     WithdrawProof |->
        [SetEmptyWithdrawProofWitness EXCEPT
            !.C = IF "Withdraw" \in HonestOps(cs)
                  THEN IF cs.pf.kind = "ForeignC"
                       THEN encAdd(recB[0].AssetsInfo[0].BalanceEnc, [CL |-> 1, CR |-> 1])
                       ELSE recB[0].AssetsInfo[0].BalanceEnc
                  ELSE zeroElgamal],
     RangeProofs |-> [k \in RangeSlots |-> RangeProofWitness(cs, k)],
     AccountRootBefore |-> TreeRoot(leavesB),
     AccountsInfoBefore |-> recB,
     MerkleProofsAccountBefore |-> AccountPaths(leavesB, "before", cs.af),
     MerkleProofsHelperAccountBefore |-> [i \in Slots |-> TreeHelper(i)],
     MerkleProofsAccountAssetsBefore |-> AssetsPathsBefore(recB, cs.af),
     MerkleProofsHelperAccountAssetsBefore |->
        [i \in Slots |-> [j \in AssetSlots |-> TreeHelper(j)]],
     MerkleProofsAccountLockedAssetsBefore |-> LockedPaths(recB, "before", cs.af),
     MerkleProofsHelperAccountLockedAssetsBefore |-> [i \in Slots |-> TreeHelper(0)],
     MerkleProofsAccountLiquidityBefore |-> LiquidityPaths(recB, "before", cs.af),
     MerkleProofsHelperAccountLiquidityBefore |-> [i \in Slots |-> TreeHelper(0)],
     AccountRootAfter |-> TreeRoot(leavesA),
     AccountsInfoAfter |-> recA,
     MerkleProofsAccountAfter |-> AccountPaths(leavesA, "after", cs.af),
     MerkleProofsHelperAccountAfter |-> [i \in Slots |-> TreeHelper(i)],
     MerkleProofsAccountAssetsAfter |-> AssetsPathsAfter(recA, cs.af),
     MerkleProofsHelperAccountAssetsAfter |-> [i \in Slots |-> TreeHelper(0)],
     MerkleProofsAccountLockedAssetsAfter |-> LockedPaths(recA, "after", cs.af),
     MerkleProofsHelperAccountLockedAssetsAfter |-> [i \in Slots |-> TreeHelper(0)],
     MerkleProofsAccountLiquidityAfter |-> LiquidityPaths(recA, "after", cs.af),
     MerkleProofsHelperAccountLiquidityAfter |-> [i \in Slots |-> TreeHelper(0)]]

RawTxOf(cs, recB, recA) ==
    RawTxWith(cs, recB, recA, AccountLeaves(recB, "before", cs.af),
              AccountLeaves(recA, "after", cs.af))

\* the witness of a case, its Sigma material still empty
RawTx(cs) == RawTxOf(cs, Records("before", cs.af), Records("after", cs.af))

RECURSIVE SetAllY(_, _)
SetAllY(t, i) == IF i = MaxRangeProofCount THEN t ELSE SetAllY(SetTransferY(t, i), i + 1)

\* the witness with every public field as the pass will set it
Routed(t) ==
    SetWithdrawPublic(SetRemoveLiquidityPublic(SetAddLiquidityPublic(
        SetSwapPublic(SetTransferPublic(SetUnlockPublic(SetT(SetAllY(t, 0))))))))

MaterialOf(b) == [ParamsOk |-> b.ParamsOk, PkProofs |-> b.PkProofs, TProofs |-> b.TProofs]

WithMaterial(b, m) ==
    [b EXCEPT !.ParamsOk = m.ParamsOk, !.PkProofs = m.PkProofs, !.TProofs = m.TProofs]

Bundle(op, cs, raw, routed) ==
    WithMaterial(raw[OpField(op)],
                 MaterialOf(FaultedMaterial(op,
                    IF op \in HonestOps(cs)
                    THEN HonestMaterial(op, routed[OpField(op)])
                    ELSE routed[OpField(op)],
                    cs.pf)))

WithBundles(raw, bs) ==
    [raw EXCEPT !.UnlockProof = bs["Unlock"],
                !.TransferProof = bs["Transfer"],
                !.SwapProof = bs["Swap"],
                !.AddLiquidityProof = bs["AddLiquidity"],
                !.RemoveLiquidityProof = bs["RemoveLiquidity"],
                !.WithdrawProof = bs["Withdraw"]]

BuildWith(cs, raw, routed) ==
    WithBundles(raw, Table([op \in Ops |-> Bundle(op, cs, raw, routed)]))

BuildFrom(cs, raw) == BuildWith(cs, raw, Routed(raw))

\* the witness of a case
BuildTx(cs) == BuildFrom(cs, RawTx(cs))

----------------------------------------------------------------------------
(* The checks of one account slot.  A check is <<label, holds>>; a label   *)
(* is <<name, slot, asset entry>>.                                         *)

\* the state root compared with itself
StateRootCheckSelf(hf, isCheckAccount, r) ==
    IsVariableEqual(isCheckAccount, r.StateRoot, r.StateRoot)

StateRootCheck(hf, isCheckAccount, r) ==
    LET stateRootCheck ==
            Sum(Write(hf, <<r.AccountAssetsRoot, r.AccountLockedAssetsRoot,
                            r.AccountLiquidityRoot>>))
    IN  IsVariableEqual(isCheckAccount, stateRootCheck, r.StateRoot)

\* the leaf of the path compared with itself
AccountHashCheckSelf(hf, isCheckAccount, r, path) ==
    IsVariableEqual(isCheckAccount, path[0], path[0])

AccountHashCheck(hf, isCheckAccount, r, path) ==
    LET accountHashCheck ==
            Sum(Write(WritePointIntoBuf(Write(hf, <<r.AccountIndex, r.AccountName>>),
                                        r.AccountPk),
                      <<r.StateRoot>>))
    IN  IsVariableEqual(isCheckAccount, accountHashCheck, path[0])

\* verify accounts before & after params
AccountParamsChecks(isCheckAccount, b, a, i) ==
    << <<(<<"AccountIndex", i, 0>>),
         IsVariableEqual(isCheckAccount, b.AccountIndex, a.AccountIndex)>>,
       <<(<<"AccountName", i, 0>>),
         IsVariableEqual(isCheckAccount, b.AccountName, a.AccountName)>>,
       <<(<<"AccountPk", i, 0>>),
         IsPointEqual(isCheckAccount, b.AccountPk, a.AccountPk)>> >>

\* verify account asset before & after params
AssetParamsCheck(isCheckAccount, b, a, j) ==
    IsVariableEqual(isCheckAccount, b.AssetsInfo[j].AssetId, a.AssetsInfo[j].AssetId)

\* verify account locked asset before & after params
LockedAssetParamsChecks(isCheckAccount, b, a, i) ==
    << <<(<<"ChainId", i, 0>>),
         IsVariableEqual(isCheckAccount, b.LockedAssetInfo.ChainId, a.LockedAssetInfo.ChainId)>>,
       <<(<<"LockedAssetId", i, 0>>),
         IsVariableEqual(isCheckAccount, b.LockedAssetInfo.AssetId, a.LockedAssetInfo.AssetId)>> >>

\* the pair index before compared with itself
LiquidityParamsCheckSelf(isCheckAccount, b, a) ==
    IsVariableEqual(isCheckAccount, b.LiquidityInfo.PairIndex, b.LiquidityInfo.PairIndex)

\* verify account liquidity before & after params
LiquidityParamsCheck(isCheckAccount, b, a) ==
    IsVariableEqual(isCheckAccount, b.LiquidityInfo.PairIndex, a.LiquidityInfo.PairIndex)

RECURSIVE AssetsBeforeChecks(_, _, _, _, _)
AssetsBeforeChecks(t, isCheckAccount, hf, i, j) ==
    IF j = NbAccountAssetsPerAccount THEN <<>>
    ELSE << <<(<<"AssetsRootBefore", i, j>>),
              VerifyMerkleProof(isCheckAccount, hf, t.AccountsInfoBefore[i].AccountAssetsRoot,
                                t.MerkleProofsAccountAssetsBefore[i][j],
                                t.MerkleProofsHelperAccountAssetsBefore[i][j])>>,
            <<(<<"AssetId", i, j>>),
              AssetParamsCheck(isCheckAccount, t.AccountsInfoBefore[i],
                               t.AccountsInfoAfter[i], j)>> >>
         \o AssetsBeforeChecks(t, isCheckAccount, Reset(hf), i, j + 1)

\* the Merkle authentications of the three sub-trees and the account tree, before
LockedBeforeCheck(t, isCheckAccount, hf, i) ==
    VerifyMerkleProof(isCheckAccount, hf, t.AccountsInfoBefore[i].AccountLockedAssetsRoot,
                      t.MerkleProofsAccountLockedAssetsBefore[i],
                      t.MerkleProofsHelperAccountLockedAssetsBefore[i])

\* the locked-asset path authenticated a second time in place of the liquidity path
LiquidityBeforeCheckAsLocked(t, isCheckAccount, hf, i) ==
    LockedBeforeCheck(t, isCheckAccount, hf, i)

LiquidityBeforeCheck(t, isCheckAccount, hf, i) ==
    VerifyMerkleProof(isCheckAccount, hf, t.AccountsInfoBefore[i].AccountLiquidityRoot,
                      t.MerkleProofsAccountLiquidityBefore[i],
                      t.MerkleProofsHelperAccountLiquidityBefore[i])

AccountBeforeCheck(t, isCheckAccount, hf, i) ==
    VerifyMerkleProof(isCheckAccount, hf, t.AccountRootBefore,
                      t.MerkleProofsAccountBefore[i], t.MerkleProofsHelperAccountBefore[i])

\* one iteration of "verify account before", the gadget found in state hf
VerifyAccountBefore(t, isCheckAccount, hf, i) ==
    LET b == t.AccountsInfoBefore[i]
        a == t.AccountsInfoAfter[i]
        h1 == Reset(hf)
    IN  AccountParamsChecks(isCheckAccount, b, a, i)
        \o << <<(<<"StateRootBefore", i, 0>>), StateRootCheck(hf, isCheckAccount, b)>>,
              <<(<<"AccountHashBefore", i, 0>>),
                AccountHashCheck(h1, isCheckAccount, b, t.MerkleProofsAccountBefore[i])>> >>
        \o AssetsBeforeChecks(t, isCheckAccount, h1, i, 0)
        \o << <<(<<"LockedAssetsRootBefore", i, 0>>),
                LockedBeforeCheck(t, isCheckAccount, h1, i)>> >>
        \o LockedAssetParamsChecks(isCheckAccount, b, a, i)
        \o << <<(<<"LiquidityRootBefore", i, 0>>),
                LiquidityBeforeCheck(t, isCheckAccount, h1, i)>>,
              <<(<<"PairIndex", i, 0>>), LiquidityParamsCheck(isCheckAccount, b, a)>>,
              <<(<<"AccountRootBefore", i, 0>>),
                AccountBeforeCheck(t, isCheckAccount, h1, i)>> >>

\* the account tree authenticated with the before path and root
VerifyAccountAfterOnBefore(t, isCheckAccount, hf, i) ==
    LET a == t.AccountsInfoAfter[i]
        h1 == Reset(hf)
    IN  << <<(<<"StateRootAfter", i, 0>>), StateRootCheck(hf, isCheckAccount, a)>>,
           <<(<<"AccountHashAfter", i, 0>>),
             AccountHashCheck(h1, isCheckAccount, a, t.MerkleProofsAccountAfter[i])>>,
           <<(<<"AssetsRootAfter", i, 0>>),
             VerifyMerkleProof(isCheckAccount, h1, a.AccountAssetsRoot,
                               t.MerkleProofsAccountAssetsAfter[i],
                               t.MerkleProofsHelperAccountAssetsAfter[i])>>,
           <<(<<"LockedAssetsRootAfter", i, 0>>),
             VerifyMerkleProof(isCheckAccount, h1, a.AccountLockedAssetsRoot,
                               t.MerkleProofsAccountLockedAssetsAfter[i],
                               t.MerkleProofsHelperAccountLockedAssetsAfter[i])>>,
           <<(<<"LiquidityRootAfter", i, 0>>),
             VerifyMerkleProof(isCheckAccount, h1, a.AccountLiquidityRoot,
                               t.MerkleProofsAccountLiquidityAfter[i],
                               t.MerkleProofsHelperAccountLiquidityAfter[i])>>,
           <<(<<"AccountRootAfter", i, 0>>),
             VerifyMerkleProof(isCheckAccount, h1, t.AccountRootBefore,
                               t.MerkleProofsAccountBefore[i],
                               t.MerkleProofsHelperAccountBefore[i])>> >>

\* one iteration of "verify account after"
VerifyAccountAfter(t, isCheckAccount, hf, i) ==
    LET a == t.AccountsInfoAfter[i]
        h1 == Reset(hf)
    IN  << <<(<<"StateRootAfter", i, 0>>), StateRootCheck(hf, isCheckAccount, a)>>,
           <<(<<"AccountHashAfter", i, 0>>),
             AccountHashCheck(h1, isCheckAccount, a, t.MerkleProofsAccountAfter[i])>>,
           <<(<<"AssetsRootAfter", i, 0>>),
             VerifyMerkleProof(isCheckAccount, h1, a.AccountAssetsRoot,
                               t.MerkleProofsAccountAssetsAfter[i],
                               t.MerkleProofsHelperAccountAssetsAfter[i])>>,
           <<(<<"LockedAssetsRootAfter", i, 0>>),
             VerifyMerkleProof(isCheckAccount, h1, a.AccountLockedAssetsRoot,
                               t.MerkleProofsAccountLockedAssetsAfter[i],
                               t.MerkleProofsHelperAccountLockedAssetsAfter[i])>>,
           <<(<<"LiquidityRootAfter", i, 0>>),
             VerifyMerkleProof(isCheckAccount, h1, a.AccountLiquidityRoot,
                               t.MerkleProofsAccountLiquidityAfter[i],
                               t.MerkleProofsHelperAccountLiquidityAfter[i])>>,
           <<(<<"AccountRootAfter", i, 0>>),
             VerifyMerkleProof(isCheckAccount, h1, t.AccountRootAfter,
                               t.MerkleProofsAccountAfter[i],
                               t.MerkleProofsHelperAccountAfter[i])>> >>

\* the first equation evaluated in place of the second
SigmaChecksPkTwice(a, i) ==
    LET enabled == 1
    IN  << <<(<<"PkEquation", i, 0>>), PkEquation(enabled, a, i)>>,
           <<(<<"TEquation", i, 0>>), PkEquation(enabled, a, i)>> >>

\* the Sigma equations left out when the challenge is zero
SigmaChecksUnlessZeroChallenge(a, i) ==
    IF a.c = 0 THEN <<>>
    ELSE << <<(<<"PkEquation", i, 0>>), PkEquation(1, a, i)>>,
            <<(<<"TEquation", i, 0>>), TEquation(1, a, i)>> >>

\* the Sigma equations of slot i, always enabled
SigmaChecks(a, i) ==
    LET enabled == 1
    IN  << <<(<<"PkEquation", i, 0>>), PkEquation(enabled, a, i)>>,
           <<(<<"TEquation", i, 0>>), TEquation(enabled, a, i)>> >>

\* the accumulation of the running result, operation by operation
AccumulateTransfer(f, check, cur) == SelectCommonPart(f.isTransferTx, check, cur)
\* the Swap outputs selected by the Transfer flag
AccumulateSwapByTransferFlag(f, check, cur) == SelectCommonPart(f.isTransferTx, check, cur)

AccumulateSwap(f, check, cur) == SelectCommonPart(f.isSwapTx, check, cur)
AccumulateAddLiquidity(f, check, cur) == SelectCommonPart(f.isAddLiquidityTx, check, cur)
AccumulateRemoveLiquidity(f, check, cur) == SelectCommonPart(f.isRemoveLiquidityTx, check, cur)
AccumulateWithdraw(f, check, cur) == SelectCommonPart(f.isWithdrawTx, check, cur)

Labels(checks) == [k \in 1 .. Len(checks) |-> checks[k][1]]
Failed(checks) == {checks[k][1] : k \in {n \in 1 .. Len(checks) : ~checks[n][2]}}

----------------------------------------------------------------------------
(* The pass *)

NoFlags == [n \in FlagNames |-> 0]
NoResult == CommonPart(VerifyProof("Unlock", SetEmptyUnlockProofWitness, NewMiMC))

Init ==
    /\ \E cs \in Cases : witness = BuildTx(cs)
    /\ tx = witness
    /\ pc = "decode"
    /\ idx = 0
    /\ flags = NoFlags
    /\ acc = NoResult
    /\ hFunc = NewMiMC
    /\ emitted = <<>>
    /\ violated = {}

Emit(checks) ==
    /\ emitted' = emitted \o Labels(checks)
    /\ violated' = violated \cup Failed(checks)

\* txType constants, compute tx type
Decode ==
    /\ pc = "decode"
    /\ flags' = TxFlags(tx.TxType)
    /\ tx' = SetIsEnabled(tx, flags')
    /\ pc' = "rangeProofs"
    /\ idx' = 0
    /\ UNCHANGED <<witness, acc, hFunc, emitted, violated>>

\* verify range proofs, one iteration
VerifyRangeProof ==
    /\ pc = "rangeProofs"
    /\ LET rangeProof == [tx.RangeProofs[idx] EXCEPT !.IsEnabled = RangeProofIsEnabled(flags)]
       IN  /\ Emit(<< <<(<<"RangeProof", idx, 0>>), VerifyCtRangeProof(rangeProof)>> >>)
           /\ hFunc' = Reset(Used(hFunc, rangeProof.A))
           /\ tx' = SetTransferY(tx, idx)
    /\ idx' = IF idx + 1 = MaxRangeProofCount THEN 0 ELSE idx + 1
    /\ pc' = IF idx + 1 = MaxRangeProofCount THEN "setT" ELSE "rangeProofs"
    /\ UNCHANGED <<witness, flags, acc>>

\* set T or Y
SetTOrY ==
    /\ pc = "setT"
    /\ tx' = SetT(tx)
    /\ pc' = "accountBefore"
    /\ idx' = 0
    /\ UNCHANGED <<witness, flags, acc, hFunc, emitted, violated>>

\* verify account before, one iteration
AccountBefore ==
    /\ pc = "accountBefore"
    /\ Emit(VerifyAccountBefore(tx, IsCheckAccount(flags), hFunc, idx))
    /\ hFunc' = Reset(hFunc)
    /\ idx' = IF idx + 1 = NbAccountsPerTx THEN 0 ELSE idx + 1
    /\ pc' = IF idx + 1 = NbAccountsPerTx THEN "unlock" ELSE "accountBefore"
    /\ UNCHANGED <<witness, tx, flags, acc>>

\* verify unlock proof: the baseline of the running result
UnlockStep ==
    /\ pc = "unlock"
    /\ tx' = SetUnlockPublic(tx)
    /\ LET v == VerifyUnlockProof(tx'.UnlockProof, hFunc)
       IN  /\ acc' = CommonPart(v)
           /\ Emit(<< <<(<<"UnlockProof", 0, 0>>), v.ownOk>> >>)
           /\ hFunc' = Reset(Used(hFunc, v.c))
    /\ pc' = "transfer"
    /\ UNCHANGED <<witness, idx, flags>>

TransferStep ==
    /\ pc = "transfer"
    /\ tx' = SetTransferPublic(tx)
    /\ LET v == VerifyTransferProof(tx'.TransferProof, hFunc)
       IN  /\ acc' = AccumulateTransfer(flags, CommonPart(v), acc)
           /\ Emit(<< <<(<<"TransferProof", 0, 0>>), v.ownOk>> >>)
           /\ hFunc' = Reset(Used(hFunc, v.c))
    /\ pc' = "swap"
    /\ UNCHANGED <<witness, idx, flags>>

SwapStep ==
    /\ pc = "swap"
    /\ tx' = SetSwapPublic(tx)
    /\ LET v == VerifySwapProof(tx'.SwapProof, hFunc)
       IN  /\ acc' = AccumulateSwap(flags, CommonPart(v), acc)
           /\ Emit(<< <<(<<"SwapProof", 0, 0>>), v.ownOk>> >>)
           /\ hFunc' = Reset(Used(hFunc, v.c))
    /\ pc' = "addLiquidity"
    /\ UNCHANGED <<witness, idx, flags>>

AddLiquidityStep ==
    /\ pc = "addLiquidity"
    /\ tx' = SetAddLiquidityPublic(tx)
    /\ LET v == VerifyAddLiquidityProof(tx'.AddLiquidityProof, hFunc)
       IN  /\ acc' = AccumulateAddLiquidity(flags, CommonPart(v), acc)
           /\ Emit(<< <<(<<"AddLiquidityProof", 0, 0>>), v.ownOk>> >>)
           /\ hFunc' = Reset(Used(hFunc, v.c))
    /\ pc' = "removeLiquidity"
    /\ UNCHANGED <<witness, idx, flags>>

RemoveLiquidityStep ==
    /\ pc = "removeLiquidity"
    /\ tx' = SetRemoveLiquidityPublic(tx)
    /\ LET v == VerifyRemoveLiquidityProof(tx'.RemoveLiquidityProof, hFunc)
       IN  /\ acc' = AccumulateRemoveLiquidity(flags, CommonPart(v), acc)
           /\ Emit(<< <<(<<"RemoveLiquidityProof", 0, 0>>), v.ownOk>> >>)
           /\ hFunc' = Reset(Used(hFunc, v.c))
    /\ pc' = "withdraw"
    /\ UNCHANGED <<witness, idx, flags>>

WithdrawStep ==
    /\ pc = "withdraw"
    /\ tx' = SetWithdrawPublic(tx)
    /\ LET v == VerifyWithdrawProof(tx'.WithdrawProof, hFunc)
       IN  /\ acc' = AccumulateWithdraw(flags, CommonPart(v), acc)
           /\ Emit(<< <<(<<"WithdrawProof", 0, 0>>), v.ownOk>> >>)
           /\ hFunc' = Reset(Used(hFunc, v.c))
    /\ pc' = "sigma"
    /\ idx' = 0
    /\ UNCHANGED <<witness, flags>>

\* the Sigma equations on the running result, one slot
Sigma ==
    /\ pc = "sigma"
    /\ Emit(SigmaChecks(acc, idx))
    /\ idx' = IF idx + 1 = MaxRangeProofCount THEN 0 ELSE idx + 1
    /\ pc' = IF idx + 1 = MaxRangeProofCount THEN "accountAfter" ELSE "sigma"
    /\ UNCHANGED <<witness, tx, flags, acc, hFunc>>

\* verify account after, one iteration
AccountAfter ==
    /\ pc = "accountAfter"
    /\ Emit(VerifyAccountAfter(tx, IsCheckAccount(flags), hFunc, idx))
    /\ hFunc' = Reset(hFunc)
    /\ idx' = IF idx + 1 = NbAccountsPerTx THEN 0 ELSE idx + 1
    /\ pc' = IF idx + 1 = NbAccountsPerTx THEN "done" ELSE "accountAfter"
    /\ UNCHANGED <<witness, tx, flags, acc>>

Next ==
    \/ Decode
    \/ VerifyRangeProof
    \/ SetTOrY
    \/ AccountBefore
    \/ UnlockStep
    \/ TransferStep
    \/ SwapStep
    \/ AddLiquidityStep
    \/ RemoveLiquidityStep
    \/ WithdrawStep
    \/ Sigma
    \/ AccountAfter

Spec == Init /\ [][Next]_vars

Done == pc = "done"
Accepted == Done /\ violated = {}
Rejected == Done /\ violated # {}

----------------------------------------------------------------------------
(* Vocabulary of the properties *)

IsNoop == tx.TxType = TxTypeNoop

\* the operation whose outputs the accumulation is to leave in the running result
SelectedOp(txType) ==
    IF txType \in {TxTypeTransfer, TxTypeSwap, TxTypeAddLiquidity, TxTypeRemoveLiquidity,
                   TxTypeWithdraw}
    THEN ActiveOp(txType) ELSE "Unlock"

FlagSum == Cardinality({n \in FlagNames : flags[n] = 1})

AllHold(checks) == \A k \in 1 .. Len(checks) : checks[k][2]

\* every account check of the pass holds on witness t when enabled
WellFormedAccounts(t) ==
    \A i \in Slots :
        /\ AllHold(VerifyAccountBefore(t, 1, NewMiMC, i))
        /\ AllHold(VerifyAccountAfter(t, 1, NewMiMC, i))

\* the bundle of op in witness t holds an honest proof for the fields the pass sets
IsHonest(t, op) ==
    MaterialOf(t[OpField(op)]) = MaterialOf(HonestMaterial(op, Routed(t)[OpField(op)]))

InvariantParamNames == {"AccountIndex", "AccountName", "AccountPk", "AssetId", "ChainId",
                        "LockedAssetId", "PairIndex"}
BeforeHashNames == {"StateRootBefore", "AccountHashBefore"}
BeforeMerkleNames == {"AssetsRootBefore", "LockedAssetsRootBefore", "LiquidityRootBefore",
                      "AccountRootBefore"}
AfterHashNames == {"StateRootAfter", "AccountHashAfter"}
AfterMerkleNames == {"AssetsRootAfter", "LockedAssetsRootAfter", "LiquidityRootAfter",
                     "AccountRootAfter"}
AccountCheckNames == InvariantParamNames \cup BeforeHashNames \cup BeforeMerkleNames
                     \cup AfterHashNames \cup AfterMerkleNames
SigmaNames == {"PkEquation", "TEquation"}

EmittedNames == {emitted[k][1] : k \in 1 .. Len(emitted)}
ViolatedNames == {l[1] : l \in violated}

StateRootOf(r) ==
    HashOf(NewMiMC, <<r.AccountAssetsRoot, r.AccountLockedAssetsRoot, r.AccountLiquidityRoot>>)

----------------------------------------------------------------------------
(* C1: the nine type flags are mutually exclusive for every value of       *)
(* TxType: at most one flag is 1, and exactly one is 1 whenever TxType is  *)
(* one of the nine enumeration constants.                                  *)
C1_FlagsOneHot ==
    pc # "decode" =>
        /\ \A n \in FlagNames : flags[n] \in {0, 1}
        /\ FlagSum <= 1
        /\ tx.TxType \in TxTypeEnum => FlagSum = 1
        /\ tx.TxType \notin TxTypeEnum => FlagSum = 0

C1_Witness == pc = "rangeProofs" /\ tx.TxType = TxTypeWithdraw /\ flags.isWithdrawTx = 1

(* C2: after the accumulation the running result holds the verified        *)
(* outputs of the active operation for Transfer, Swap, AddLiquidity,       *)
(* RemoveLiquidity and Withdraw, and the Unlock outputs for every other    *)
(* TxType value.                                                           *)
C2_RunningResult ==
    pc \in {"sigma", "accountAfter", "done"} =>
        acc = CommonPart(VerifyProof(SelectedOp(tx.TxType),
                                     tx[OpField(SelectedOp(tx.TxType))], NewMiMC))

C2_Witness ==
    /\ pc = "sigma"
    /\ tx.TxType = TxTypeSwap
    /\ acc = CommonPart(VerifySwapProof(tx.SwapProof, NewMiMC))
    /\ acc # CommonPart(VerifyUnlockProof(tx.UnlockProof, NewMiMC))
    /\ acc # CommonPart(VerifyTransferProof(tx.TransferProof, NewMiMC))

(* C3: the transaction is accepted only if, in every range-proof slot,     *)
(* both Sigma equations hold on the selected material; one failing         *)
(* equation in one slot rejects it.                                        *)
C3_SigmaEnforced ==
    Done =>
        \A i \in RangeSlots :
            /\ ~PkEquation(1, acc, i) => <<"PkEquation", i, 0>> \in violated
            /\ ~TEquation(1, acc, i) => <<"TEquation", i, 0>> \in violated

C3_Witness == Done /\ violated = {<<"TEquation", 2, 0>>}

(* C4: for every TxType of the enumeration, a transaction whose active     *)
(* operation is valid and whose other bundles are canonical empty          *)
(* witnesses satisfies all constraints.                                    *)
C4_EmptyBundlesAccepted ==
    (/\ Done
     /\ witness.TxType \in TxTypeEnum
     /\ \A op \in Ops \ {ActiveOp(witness.TxType)} : witness[OpField(op)] = EmptyBundle(op)
     /\ ActiveOp(witness.TxType) \in Ops => IsHonest(witness, ActiveOp(witness.TxType))
     /\ \A k \in RangeSlots : witness.RangeProofs[k].Ok
     /\ WellFormedAccounts(witness))
    => violated = {}

(* C5: for every TxType other than Noop the transaction is rejected when   *)
(* some account slot's after record differs from its before record in      *)
(* AccountIndex, AccountName, AccountPk, an AssetId, the locked ChainId,    *)
(* the locked AssetId or the liquidity PairIndex.                           *)
C5_InvariantFieldsEnforced ==
    (Done /\ ~IsNoop) =>
        \A i \in Slots :
            LET b == tx.AccountsInfoBefore[i]
                a == tx.AccountsInfoAfter[i]
            IN  /\ b.AccountIndex # a.AccountIndex => <<"AccountIndex", i, 0>> \in violated
                /\ b.AccountName # a.AccountName => <<"AccountName", i, 0>> \in violated
                /\ b.AccountPk # a.AccountPk => <<"AccountPk", i, 0>> \in violated
                /\ \A j \in AssetSlots :
                       b.AssetsInfo[j].AssetId # a.AssetsInfo[j].AssetId
                       => <<"AssetId", i, j>> \in violated
                /\ b.LockedAssetInfo.ChainId # a.LockedAssetInfo.ChainId
                   => <<"ChainId", i, 0>> \in violated
                /\ b.LockedAssetInfo.AssetId # a.LockedAssetInfo.AssetId
                   => <<"LockedAssetId", i, 0>> \in violated
                /\ b.LiquidityInfo.PairIndex # a.LiquidityInfo.PairIndex
                   => <<"PairIndex", i, 0>> \in violated

C5_Witness ==
    /\ Done
    /\ tx.TxType = TxTypeTransfer
    /\ tx.AccountsInfoBefore[2].LiquidityInfo.PairIndex
       # tx.AccountsInfoAfter[2].LiquidityInfo.PairIndex
    /\ violated = {<<"PairIndex", 2, 0>>}

C7_StateRootBound ==
    (Done /\ ~IsNoop) =>
        \A i \in Slots :
            /\ tx.AccountsInfoBefore[i].StateRoot # StateRootOf(tx.AccountsInfoBefore[i])
               => <<"StateRootBefore", i, 0>> \in violated
            /\ tx.AccountsInfoAfter[i].StateRoot # StateRootOf(tx.AccountsInfoAfter[i])
               => <<"StateRootAfter", i, 0>> \in violated

C7_Witness ==
    /\ Done
    /\ tx.TxType = TxTypeSwap
    /\ tx.AccountsInfoAfter[1].StateRoot # StateRootOf(tx.AccountsInfoAfter[1])
    /\ violated = {<<"StateRootAfter", 1, 0>>}

(* C8: for every TxType other than Noop the transaction is rejected unless *)
(* in every slot the hash of AccountIndex, AccountName, AccountPk and      *)
(* StateRoot is element 0 of the slot's account Merkle path, before and    *)
(* after.                                                                  *)
C8_LeafBound ==
    (Done /\ ~IsNoop) =>
        \A i \in Slots :
            /\ AccountLeafOf(tx.AccountsInfoBefore[i]) # tx.MerkleProofsAccountBefore[i][0]
               => <<"AccountHashBefore", i, 0>> \in violated
            /\ AccountLeafOf(tx.AccountsInfoAfter[i]) # tx.MerkleProofsAccountAfter[i][0]
               => <<"AccountHashAfter", i, 0>> \in violated

C8_Witness ==
    /\ Done
    /\ tx.TxType = TxTypeUnlock
    /\ AccountLeafOf(tx.AccountsInfoBefore[3]) # tx.MerkleProofsAccountBefore[3][0]
    /\ violated = {<<"AccountHashBefore", 3, 0>>}

(* C9: for every TxType other than Noop the transaction is rejected unless *)
(* in every slot each asset path opens to the record's AccountAssetsRoot,   *)
(* the locked-asset path to its AccountLockedAssetsRoot, the liquidity     *)
(* path to its AccountLiquidityRoot and the account path to                *)
(* AccountRootBefore.                                                      *)
C9_BeforeLayersAuthenticated ==
    (Done /\ ~IsNoop) =>
        \A i \in Slots :
            LET b == tx.AccountsInfoBefore[i]
            IN  /\ \A j \in AssetSlots :
                       MerkleRootOf(NewMiMC, tx.MerkleProofsAccountAssetsBefore[i][j],
                                    tx.MerkleProofsHelperAccountAssetsBefore[i][j])
                       # b.AccountAssetsRoot
                       => <<"AssetsRootBefore", i, j>> \in violated
                /\ MerkleRootOf(NewMiMC, tx.MerkleProofsAccountLockedAssetsBefore[i],
                                tx.MerkleProofsHelperAccountLockedAssetsBefore[i])
                   # b.AccountLockedAssetsRoot
                   => <<"LockedAssetsRootBefore", i, 0>> \in violated
                /\ MerkleRootOf(NewMiMC, tx.MerkleProofsAccountLiquidityBefore[i],
                                tx.MerkleProofsHelperAccountLiquidityBefore[i])
                   # b.AccountLiquidityRoot
                   => <<"LiquidityRootBefore", i, 0>> \in violated
                /\ MerkleRootOf(NewMiMC, tx.MerkleProofsAccountBefore[i],
                                tx.MerkleProofsHelperAccountBefore[i])
                   # tx.AccountRootBefore
                   => <<"AccountRootBefore", i, 0>> \in violated

C9_Witness ==
    /\ Done
    /\ tx.TxType = TxTypeAddLiquidity
    /\ MerkleRootOf(NewMiMC, tx.MerkleProofsAccountLiquidityBefore[0],
                    tx.MerkleProofsHelperAccountLiquidityBefore[0])
       # tx.AccountsInfoBefore[0].AccountLiquidityRoot
    /\ violated = {<<"LiquidityRootBefore", 0, 0>>}

\* the positions of the labels of the given names in the order of evaluation
PositionsOf(names) == {k \in 1 .. Len(emitted) : emitted[k][1] \in names}

(* C10: for every TxType other than Noop the transaction is rejected       *)
(* unless in every slot the after asset, locked-asset and liquidity paths  *)
(* open to the after record's sub-roots and the after account path to      *)
(* AccountRootAfter; these checks are evaluated only after the Sigma       *)
(* equations of every range-proof slot.                                    *)
C10_AfterLayersAuthenticated ==
    /\ \A k \in PositionsOf(AfterHashNames \cup AfterMerkleNames) :
           \A i \in RangeSlots :
               \A n \in SigmaNames :
                   \E m \in 1 .. (k - 1) : emitted[m] = <<n, i, 0>>
    /\ (Done /\ ~IsNoop) =>
           \A i \in Slots :
               LET a == tx.AccountsInfoAfter[i]
               IN  /\ MerkleRootOf(NewMiMC, tx.MerkleProofsAccountAssetsAfter[i],
                                   tx.MerkleProofsHelperAccountAssetsAfter[i])
                      # a.AccountAssetsRoot
                      => <<"AssetsRootAfter", i, 0>> \in violated
                   /\ MerkleRootOf(NewMiMC, tx.MerkleProofsAccountLockedAssetsAfter[i],
                                   tx.MerkleProofsHelperAccountLockedAssetsAfter[i])
                      # a.AccountLockedAssetsRoot
                      => <<"LockedAssetsRootAfter", i, 0>> \in violated
                   /\ MerkleRootOf(NewMiMC, tx.MerkleProofsAccountLiquidityAfter[i],
                                   tx.MerkleProofsHelperAccountLiquidityAfter[i])
                      # a.AccountLiquidityRoot
                      => <<"LiquidityRootAfter", i, 0>> \in violated
                   /\ MerkleRootOf(NewMiMC, tx.MerkleProofsAccountAfter[i],
                                   tx.MerkleProofsHelperAccountAfter[i])
                      # tx.AccountRootAfter
                      => <<"AccountRootAfter", i, 0>> \in violated

C10_Witness ==
    /\ Done
    /\ tx.TxType = TxTypeWithdraw
    /\ MerkleRootOf(NewMiMC, tx.MerkleProofsAccountAfter[3],
                    tx.MerkleProofsHelperAccountAfter[3]) # tx.AccountRootAfter
    /\ violated = {<<"AccountRootAfter", 3, 0>>}

----------------------------------------------------------------------------
(* C11: a non-Noop transaction is accepted only if each after record's     *)
(* encrypted balance is the before balance transformed by the active       *)
(* operation's proven delta; stated for Transfer, whose sub-proof i proves *)
(* the delta CDelta on asset entry 0 of slot i.                            *)
C11_AfterBalancesTransformed ==
    (Accepted /\ tx.TxType = TxTypeTransfer) =>
        \A i \in TransferSlots :
            tx.AccountsInfoAfter[i].AssetsInfo[0].BalanceEnc =
                encAdd(tx.AccountsInfoBefore[i].AssetsInfo[0].BalanceEnc,
                       tx.TransferProof.TProofs[i].CDelta)

----------------------------------------------------------------------------
(* C19: range-proof routing follows a fixed mapping applied before any     *)
(* operation bundle is verified: Unlock.T_fee = slot 0; Transfer sub-proof *)
(* i's T = slot i; Swap.T_uA, T_fee = slots 0, 1; AddLiquidity.T_uA, T_uB, *)
(* T_fee = slots 0, 1, 2; RemoveLiquidity.T_uLP, T_fee = slots 0, 1;       *)
(* Withdraw.T, T_fee = slots 0, 1, where slot k is RangeProofs[k].A of the *)
(* witness, whatever TxType and the witness values are.                    *)
RangeSlot(k) == witness.RangeProofs[k].A

BundleNames == {"UnlockProof", "TransferProof", "SwapProof", "AddLiquidityProof",
                "RemoveLiquidityProof", "WithdrawProof"}

C19_RangeProofRouting ==
    /\ EmittedNames \cap BundleNames # {} => pc \notin {"decode", "rangeProofs", "setT"}
    /\ pc \notin {"decode", "rangeProofs", "setT"} =>
        /\ tx.UnlockProof.T_fee = RangeSlot(0)
        /\ \A i \in TransferSlots : tx.TransferProof.SubProofs[i].T = RangeSlot(i)
        /\ tx.SwapProof.T_uA = RangeSlot(0)
        /\ tx.SwapProof.T_fee = RangeSlot(1)
        /\ tx.AddLiquidityProof.T_uA = RangeSlot(0)
        /\ tx.AddLiquidityProof.T_uB = RangeSlot(1)
        /\ tx.AddLiquidityProof.T_fee = RangeSlot(2)
        /\ tx.RemoveLiquidityProof.T_uLP = RangeSlot(0)
        /\ tx.RemoveLiquidityProof.T_fee = RangeSlot(1)
        /\ tx.WithdrawProof.T = RangeSlot(0)
        /\ tx.WithdrawProof.T_fee = RangeSlot(1)

C19_Witness ==
    /\ pc = "accountBefore"
    /\ tx.TxType = TxTypeAddLiquidity
    /\ Cardinality({RangeSlot(k) : k \in RangeSlots}) = MaxRangeProofCount
    /\ tx.AddLiquidityProof.T_fee = RangeSlot(2)
    /\ witness.AddLiquidityProof.T_fee # RangeSlot(2)
    /\ tx.SwapProof.T_fee = RangeSlot(1)

----------------------------------------------------------------------------
(* C20: the public fields of every operation bundle used by its            *)
(* verification are taken from the before account records, overwriting any *)
(* value the witness supplied; stated for the balance ciphertext C of the  *)
(* Withdraw bundle, which is asset entry 0 of slot 0, the entry whose      *)
(* AssetId the Withdraw bundle is given.                                   *)
C20_PublicFieldsFromBefore ==
    (Accepted /\ tx.TxType = TxTypeWithdraw) =>
        tx.WithdrawProof.C = tx.AccountsInfoBefore[0].AssetsInfo[0].BalanceEnc

----------------------------------------------------------------------------
(* VerifyTransaction as one function of the witness: the checks of the     *)
(* whole pass, in the order the pass emits them.                           *)

RECURSIVE RangeProofChecksFrom(_, _, _)
RangeProofChecksFrom(t, f, i) ==
    IF i = MaxRangeProofCount THEN <<>>
    ELSE << <<(<<"RangeProof", i, 0>>),
              VerifyCtRangeProof([t.RangeProofs[i] EXCEPT
                                    !.IsEnabled = RangeProofIsEnabled(f)])>> >>
         \o RangeProofChecksFrom(t, f, i + 1)

RECURSIVE AccountBeforeChecksFrom(_, _, _)
AccountBeforeChecksFrom(t, f, i) ==
    IF i = NbAccountsPerTx THEN <<>>
    ELSE VerifyAccountBefore(t, IsCheckAccount(f), NewMiMC, i)
         \o AccountBeforeChecksFrom(t, f, i + 1)

RECURSIVE AccountAfterChecksFrom(_, _, _)
AccountAfterChecksFrom(t, f, i) ==
    IF i = NbAccountsPerTx THEN <<>>
    ELSE VerifyAccountAfter(t, IsCheckAccount(f), NewMiMC, i)
         \o AccountAfterChecksFrom(t, f, i + 1)

RECURSIVE SigmaChecksFrom(_, _)
SigmaChecksFrom(a, i) ==
    IF i = MaxRangeProofCount THEN <<>>
    ELSE SigmaChecks(a, i) \o SigmaChecksFrom(a, i + 1)

\* the operations' own equations, on the witness r with its public fields set
OwnChecks(r) ==
    << <<(<<"UnlockProof", 0, 0>>), VerifyUnlockProof(r.UnlockProof, NewMiMC).ownOk>>,
       <<(<<"TransferProof", 0, 0>>), VerifyTransferProof(r.TransferProof, NewMiMC).ownOk>>,
       <<(<<"SwapProof", 0, 0>>), VerifySwapProof(r.SwapProof, NewMiMC).ownOk>>,
       <<(<<"AddLiquidityProof", 0, 0>>),
         VerifyAddLiquidityProof(r.AddLiquidityProof, NewMiMC).ownOk>>,
       <<(<<"RemoveLiquidityProof", 0, 0>>),
         VerifyRemoveLiquidityProof(r.RemoveLiquidityProof, NewMiMC).ownOk>>,
       <<(<<"WithdrawProof", 0, 0>>), VerifyWithdrawProof(r.WithdrawProof, NewMiMC).ownOk>> >>

\* the running result after the accumulation
RunningResult(r, f) ==
    AccumulateWithdraw(f, CommonPart(VerifyWithdrawProof(r.WithdrawProof, NewMiMC)),
      AccumulateRemoveLiquidity(f,
        CommonPart(VerifyRemoveLiquidityProof(r.RemoveLiquidityProof, NewMiMC)),
        AccumulateAddLiquidity(f,
          CommonPart(VerifyAddLiquidityProof(r.AddLiquidityProof, NewMiMC)),
          AccumulateSwap(f, CommonPart(VerifySwapProof(r.SwapProof, NewMiMC)),
            AccumulateTransfer(f, CommonPart(VerifyTransferProof(r.TransferProof, NewMiMC)),
              CommonPart(VerifyUnlockProof(r.UnlockProof, NewMiMC)))))))

PassChecksWith(t, f, r) ==
    RangeProofChecksFrom(t, f, 0)
    \o AccountBeforeChecksFrom(t, f, 0)
    \o OwnChecks(r)
    \o SigmaChecksFrom(RunningResult(r, f), 0)
    \o AccountAfterChecksFrom(t, f, 0)

PassChecks(t) ==
    PassChecksWith(t, TxFlags(t.TxType), Routed(SetIsEnabled(t, TxFlags(t.TxType))))

\* VerifyTransaction accepts witness t
Verdict(t) == Failed(PassChecks(t)) = {}

\* the pass, step by step, emits the checks of PassChecks and fails the same ones
PassAgrees ==
    Done => /\ emitted = Labels(PassChecks(witness))
            /\ violated = Failed(PassChecks(witness))

\* witness t with the bundle of operation op replaced by its canonical empty witness
WithEmptyBundle(t, op) == [t EXCEPT ![OpField(op)] = EmptyBundle(op)]

(* C17: noninterference of disabled bundles: two transactions that differ  *)
(* only in the contents of bundles that are not the active operation are   *)
(* both accepted or both rejected; stated as: replacing any one non-active *)
(* bundle of the verified witness by the canonical empty witness leaves    *)
(* the verdict unchanged.                                                  *)
C17_DisabledBundlesNoninterfering ==
    Done =>
        \A op \in Ops \ {ActiveOp(witness.TxType)} :
            Verdict(WithEmptyBundle(witness, op)) = (violated = {})

----------------------------------------------------------------------------
(* The encrypted-value gadget on its own (std/elgamal.go).  A scalar is a  *)
(* circuit variable, a value of 0..FieldModulus-1; the sum of two          *)
(* variables is taken in the field.  selectElgamal works on the point      *)
(* coordinates, so its ciphertexts are given as coordinate records.        *)

Scalars == 0 .. FieldModulus - 1
Coords == 0 .. MaxCoord
Points == [X : Coords, Y : Coords]
CoordCiphertexts == [CL : Points, CR : Points]

\* frontend.API.Add
Add(a, b) == (a + b) % FieldModulus

enc(h, b, r, pk) ==
    [CL |-> ScalarMul(pk, r),
     CR |-> ToolAdd(ScalarMul(h, b), ScalarBaseMul(r))]

encSub(C, CDelta) ==
    [CL |-> ToolAdd(C.CL, ToolNeg(CDelta.CL)),
     CR |-> ToolAdd(C.CR, ToolNeg(CDelta.CR))]

\* the last coordinate selected the other way round
selectElgamalMixed(flag, a, b) ==
    [CL |-> [X |-> Select(flag, a.CL.X, b.CL.X), Y |-> Select(flag, a.CL.Y, b.CL.Y)],
     CR |-> [X |-> Select(flag, a.CR.X, b.CR.X), Y |-> Select(flag, b.CR.Y, a.CR.Y)]]

selectElgamal(flag, a, b) ==
    [CL |-> [X |-> Select(flag, a.CL.X, b.CL.X), Y |-> Select(flag, a.CL.Y, b.CL.Y)],
     CR |-> [X |-> Select(flag, a.CR.X, b.CR.X), Y |-> Select(flag, a.CR.Y, b.CR.Y)]]

\* the constraints selectElgamal adds to the constraint system, in order
SelectElgamalConstraints ==
    << <<"Select", "CL", "X">>, <<"Select", "CL", "Y">>,
       <<"Select", "CR", "X">>, <<"Select", "CR", "Y">> >>

SelectInputs == [flag : {0, 1}, a : CoordCiphertexts, b : CoordCiphertexts]

EncInputs ==
    [h : 1 .. 2, pk : {1, GroupOrder - 1}, b1 : Scalars, b2 : Scalars,
     r1 : Scalars, r2 : Scalars]

ElgamalInit ==
    /\ \/ witness \in SelectInputs /\ pc = "select"
       \/ witness \in EncInputs /\ pc = "enc"
    /\ tx = zeroElgamal
    /\ idx = 0
    /\ flags = NoFlags
    /\ acc = NoResult
    /\ hFunc = NewMiMC
    /\ emitted = <<>>
    /\ violated = {}

SelectElgamalStep ==
    /\ pc = "select"
    /\ tx' = selectElgamal(witness.flag, witness.a, witness.b)
    /\ emitted' = emitted \o SelectElgamalConstraints
    /\ pc' = "selected"
    /\ UNCHANGED <<witness, idx, flags, acc, hFunc, violated>>

\* the two ciphertexts under the same public key
EncStep ==
    /\ pc = "enc"
    /\ tx' = [C |-> enc(witness.h, witness.b1, witness.r1, witness.pk),
              CDelta |-> enc(witness.h, witness.b2, witness.r2, witness.pk)]
    /\ pc' = "encrypted"
    /\ UNCHANGED <<witness, idx, flags, acc, hFunc, emitted, violated>>

\* their homomorphic sum and difference
EncAddSubStep ==
    /\ pc = "encrypted"
    /\ tx' = [C |-> tx.C, CDelta |-> tx.CDelta,
              sum |-> encAdd(tx.C, tx.CDelta), diff |-> encSub(tx.C, tx.CDelta)]
    /\ pc' = "combined"
    /\ UNCHANGED <<witness, idx, flags, acc, hFunc, emitted, violated>>

ElgamalNext ==
    \/ SelectElgamalStep
    \/ EncStep
    \/ EncAddSubStep

ElgamalSpec == ElgamalInit /\ [][ElgamalNext]_vars

(* C13: selectElgamal(flag, a, b) returns the ciphertext a, all four       *)
(* coordinates, when flag is 1 and b when flag is 0, and emits the same    *)
(* four coordinate selections whichever value flag has.                    *)
C13_SelectElgamal ==
    pc = "selected" =>
        /\ witness.flag = 1 => tx = witness.a
        /\ witness.flag = 0 => tx = witness.b
        /\ emitted = SelectElgamalConstraints

C13_Witness ==
    /\ pc = "selected"
    /\ witness.flag = 0
    /\ tx = witness.b
    /\ \A c \in {"CL", "CR"} : \A k \in {"X", "Y"} : witness.a[c][k] # witness.b[c][k]

----------------------------------------------------------------------------
(* zecrey-legend (block/txConstraints.go).  Balances are plain variables,  *)
(* a transaction is authorised by one signature of the account of slot 0,  *)
(* and the pass recomputes the account root slot by slot.  A tx info is    *)
(* [Ok, Payload, Deltas, NftDeltas]: Ok stands for the equations of its    *)
(* std.Verify<Type>Tx, Payload for the fields its message hash absorbs,    *)
(* Deltas and NftDeltas for what GetAccountDeltasFrom<Type> reads from it. *)

\* the transaction types, in the order of their flags, and their codes
LegendTxType ==
    [EmptyTx |-> 0, RegisterZns |-> 1, Deposit |-> 2, DepositNft |-> 3, Transfer |-> 4,
     Swap |-> 5, AddLiquidity |-> 6, RemoveLiquidity |-> 7, Withdraw |-> 8, MintNft |-> 9,
     TransferNft |-> 10, SetNftPrice |-> 11, BuyNft |-> 12, WithdrawNft |-> 13]

LegendTypeNames == DOMAIN LegendTxType
\* the values TxType takes: the codes and one value outside the enumeration
LegendTxTypeValues == {LegendTxType[n] : n \in LegendTypeNames} \cup {14}

LegendInfoField(n) ==
    CASE n = "RegisterZns" -> "RegisterZnsTxInfo" [] n = "Deposit" -> "DepositTxInfo"
      [] n = "DepositNft" -> "DepositNftTxInfo" [] n = "Transfer" -> "TransferTxInfo"
      [] n = "Swap" -> "SwapTxInfo" [] n = "AddLiquidity" -> "AddLiquidityTxInfo"
      [] n = "RemoveLiquidity" -> "RemoveLiquidityTxInfo" [] n = "MintNft" -> "MintNftTxInfo"
      [] n = "TransferNft" -> "TransferNftTxInfo" [] n = "SetNftPrice" -> "SetNftPriceTxInfo"
      [] n = "BuyNft" -> "BuyNftTxInfo" [] n = "Withdraw" -> "WithdrawTxInfo"
      [] n = "WithdrawNft" -> "WithdrawNftTxInfo"

LegendInfoNames == LegendTypeNames \ {"EmptyTx"}

NilHash == 0

And(a, b) == IF a = 1 /\ b = 1 THEN 1 ELSE 0

\* api.IsZero(api.IsZero(api.Sub(root, nilHash)))
NotNil(root) == IsZero(IsZero(Sub(root, NilHash)))

\* compute tx type: the fourteen flags
LegendTxFlags(txType) ==
    [isEmptyTx |-> IsZero(Sub(txType, LegendTxType.EmptyTx)),
     isRegisterZnsTx |-> IsZero(Sub(txType, LegendTxType.RegisterZns)),
     isDepositTx |-> IsZero(Sub(txType, LegendTxType.Deposit)),
     isDepositNftTx |-> IsZero(Sub(txType, LegendTxType.DepositNft)),
     isTransferTx |-> IsZero(Sub(txType, LegendTxType.Transfer)),
     isSwapTx |-> IsZero(Sub(txType, LegendTxType.Swap)),
     isAddLiquidityTx |-> IsZero(Sub(txType, LegendTxType.AddLiquidity)),
     isRemoveLiquidityTx |-> IsZero(Sub(txType, LegendTxType.RemoveLiquidity)),
     isWithdrawTx |-> IsZero(Sub(txType, LegendTxType.Withdraw)),
     isMintNftTx |-> IsZero(Sub(txType, LegendTxType.MintNft)),
     isTransferNftTx |-> IsZero(Sub(txType, LegendTxType.TransferNft)),
     isSetNftPriceTx |-> IsZero(Sub(txType, LegendTxType.SetNftPrice)),
     isBuyNftTx |-> IsZero(Sub(txType, LegendTxType.BuyNft)),
     isWithdrawNftTx |-> IsZero(Sub(txType, LegendTxType.WithdrawNft))]

LegendFlagOf(f, n) == f["is" \o n \o (IF n = "EmptyTx" THEN "" ELSE "Tx")]

\* the signature check switched off for Transfer as well
NotNoSignatureTxNorTransfer(f) ==
    IsZero(Or(f.isTransferTx,
              Or(f.isEmptyTx, Or(Or(f.isRegisterZnsTx, f.isDepositTx), f.isDepositNftTx))))

\* no need to verify signature transaction
NotNoSignatureTx(f) ==
    IsZero(Or(f.isEmptyTx, Or(Or(f.isRegisterZnsTx, f.isDepositTx), f.isDepositNftTx)))

IsLiquidityTx(f) == Or(f.isSwapTx, Or(f.isAddLiquidityTx, f.isRemoveLiquidityTx))

IsNftTxs(f) ==
    Or(f.isDepositNftTx, Or(f.isMintNftTx, Or(f.isTransferNftTx,
        Or(f.isSetNftPriceTx, Or(f.isBuyNftTx, f.isWithdrawNftTx)))))

\* std.ComputeHashFrom<Type>Tx: the digest of the info's fields and the nonce
ComputeHashFromTx(n, info, nonce, hf) ==
    HashOf(hf, <<LegendTxType[n], info.Payload, nonce>>)

\* the types whose hash the chain selects, in the order of the selects
HashSelectOrder ==
    <<"Swap", "AddLiquidity", "RemoveLiquidity", "Withdraw", "MintNft", "TransferNft",
      "SetNftPrice", "BuyNft", "WithdrawNft">>

\* get hash value from tx based on tx type: the chain of selects up to the k-th
RECURSIVE HashValFrom(_, _, _)
HashValFrom(t, f, k) ==
    IF k = 0
    THEN ComputeHashFromTx("Transfer", t.TransferTxInfo, t.AccountsInfoBefore[0].Nonce, NewMiMC)
    ELSE Select(LegendFlagOf(f, HashSelectOrder[k]),
                ComputeHashFromTx(HashSelectOrder[k], t[LegendInfoField(HashSelectOrder[k])],
                                  t.AccountsInfoBefore[0].Nonce, NewMiMC),
                HashValFrom(t, f, k - 1))

HashVal(t, f) == HashValFrom(t, f, Len(HashSelectOrder))

\* std.VerifyEddsaSig: the signature is one of the key on the message
VerifyEddsaSig(isEnabled, hashVal, pk, sig) ==
    (isEnabled = 1) => (sig = [Msg |-> hashVal, Pk |-> pk])

\* the types whose std.Verify<Type>Tx is called, in the order of the calls
VerifyOrder ==
    <<"Deposit", "DepositNft", "Transfer", "Swap", "AddLiquidity", "RemoveLiquidity",
      "Withdraw", "MintNft", "TransferNft", "SetNftPrice", "BuyNft", "WithdrawNft">>

\* verify transactions
VerifyTxsChecks(t, f) ==
    [k \in 1 .. Len(VerifyOrder) |->
        <<(<<"Verify" \o VerifyOrder[k] \o "Tx", 0, 0>>),
          (LegendFlagOf(f, VerifyOrder[k]) = 1) => t[LegendInfoField(VerifyOrder[k])].Ok>>]

\* the types whose deltas the chain selects, after the Deposit baseline
DeltaSelectOrder ==
    <<"Transfer", "Swap", "AddLiquidity", "RemoveLiquidity", "Withdraw", "MintNft",
      "TransferNft", "SetNftPrice", "BuyNft", "WithdrawNft">>

RECURSIVE DeltasFrom(_, _, _)
DeltasFrom(t, f, k) ==
    IF k = 0 THEN t.DepositTxInfo.Deltas
    ELSE Select(LegendFlagOf(f, DeltaSelectOrder[k]),
                t[LegendInfoField(DeltaSelectOrder[k])].Deltas, DeltasFrom(t, f, k - 1))

\* the nft deltas: the DepositNft baseline, then the five nft types
RECURSIVE NftDeltasFrom(_, _, _)
NftDeltasFrom(t, f, k) ==
    IF k = 5 THEN t.DepositNftTxInfo.NftDeltas
    ELSE Select(LegendFlagOf(f, DeltaSelectOrder[k]),
                t[LegendInfoField(DeltaSelectOrder[k])].NftDeltas, NftDeltasFrom(t, f, k - 1))

\* UpdateAccounts: balances, LP amount and owned nft moved by the deltas
UpdateAccounts(before, deltas, nftDeltas) ==
    Table([i \in Slots |->
        [before[i] EXCEPT
            !.AssetsInfo = [j \in AssetSlots |->
                [@[j] EXCEPT !.Balance = (@ + deltas[i][j]) % FieldModulus]],
            !.LiquidityInfo.LpAmount = (@ + deltas[i][0]) % FieldModulus,
            !.NftInfo.NftIndex = (@ + nftDeltas[i]) % FieldModulus]])

\* std.UpdateMerkleProof: the root the path folds to
UpdateMerkleProof(hf, proofSet, helper) == MerkleRootOf(hf, proofSet, helper)

AssetNodeHash(hf, a) == HashOf(hf, <<a.AssetId, a.Balance>>)

LiquidityNodeHash(hf, l) ==
    HashOf(hf, <<l.PairIndex, l.AssetAId, l.AssetAAmount, l.AssetBId, l.AssetBAmount,
                 l.LpAmount>>)

NftNodeHash(hf, n) ==
    HashOf(hf, <<n.NftAssetId, n.NftIndex, n.CreatorIndex, n.NftContentHash, n.AssetId,
                 n.AssetAmount, n.NftL1Address, n.NftL1TokenId>>)

AccountNodeHash(hf, r, assetsRoot, liquidityRoot, nftRoot) ==
    HashOf(hf, <<r.AccountIndex, r.AccountName, r.AccountPk.A.X, r.AccountPk.A.Y, r.Nonce,
                 assetsRoot, liquidityRoot, nftRoot>>)

\* the index of the last entry of a path
Last == MerkleLevels

\* the slot's first lines: the three sub-roots start from the last path entries,
\* and from the second slot on the account path ends with the root computed so far
LegendSlotStart(t, a, i) ==
    [t |-> [t EXCEPT !.MerkleProofsAccountBefore[i][Last] =
                        Select(IsZero(IsZero(i)), a.NewAccountRoot, @)],
     acc |-> [a EXCEPT
        !.NewAccountAssetsRoot = t.MerkleProofsAccountAssetsBefore[i][0][Last],
        !.NewAccountLiquidityRoot = t.MerkleProofsAccountLiquidityBefore[i][Last],
        !.NewAccountNftRoot = t.MerkleProofsAccountNftBefore[i][Last]],
     checks |-> <<>>]

\* one asset entry: verify the leaf and the path, then update both
LegendAssetEntry(s, i, j, path, helper) ==
    LET notNilAssetRoot == NotNil(s.t.AccountsInfoBefore[i].AccountAssetsRoot)
        updated == [path EXCEPT
                        ![0] = AssetNodeHash(NewMiMC, s.acc.AccountsInfoAfter[i].AssetsInfo[j])]
    IN  [t |-> [s.t EXCEPT !.MerkleProofsAccountAssetsBefore[i][j] = updated],
         acc |-> [s.acc EXCEPT
                    !.NewAccountAssetsRoot = UpdateMerkleProof(NewMiMC, updated, helper)],
         checks |-> s.checks \o
            << <<(<<"AssetNodeHash", i, j>>),
                 IsVariableEqual(notNilAssetRoot, path[0],
                    AssetNodeHash(NewMiMC, s.t.AccountsInfoBefore[i].AssetsInfo[j]))>>,
               <<(<<"AssetsRoot", i, j>>),
                 VerifyMerkleProof(notNilAssetRoot, NewMiMC,
                    s.t.AccountsInfoBefore[i].AccountAssetsRoot, path, helper)>> >>]

\* verify account asset node hash: the loop over the asset entries
RECURSIVE LegendAssetsFrom(_, _, _)
LegendAssetsFrom(s, i, j) ==
    IF j = NbAccountAssetsPerAccount THEN s
    ELSE LegendAssetsFrom(
            LegendAssetEntry(s, i, j,
                [s.t.MerkleProofsAccountAssetsBefore[i][j] EXCEPT
                    ![Last] = Select(IsZero(IsZero(j)), s.acc.NewAccountAssetsRoot, @)],
                s.t.MerkleProofsHelperAccountAssetsBefore[i][j]),
            i, j + 1)

\* verify account liquidity merkle proof
LegendLiquidityVerify(t, gate, i) ==
    VerifyMerkleProof(gate, NewMiMC, t.AccountsInfoBefore[i].AccountNftRoot,
                      t.MerkleProofsAccountLiquidityBefore[i],
                      t.MerkleProofsHelperAccountLiquidityBefore[i])

\* verify account liquidity node hash
LegendLiquidityOf(t, a, f, i, gate, updated) ==
    [t |-> [t EXCEPT !.MerkleProofsAccountLiquidityBefore[i] = updated],
     acc |-> [a EXCEPT !.NewAccountLiquidityRoot =
                UpdateMerkleProof(NewMiMC, updated, t.MerkleProofsHelperAccountLiquidityBefore[i])],
     checks |->
        << <<(<<"LiquidityNodeHash", i, 0>>),
             IsVariableEqual(gate, t.MerkleProofsAccountLiquidityBefore[i][0],
                LiquidityNodeHash(NewMiMC, t.AccountsInfoBefore[i].LiquidityInfo))>>,
           <<(<<"LiquidityRoot", i, 0>>), LegendLiquidityVerify(t, gate, i)>> >>]

LiquidityGate(t, f, i) == And(NotNil(t.AccountsInfoBefore[i].AccountLiquidityRoot), IsLiquidityTx(f))

LegendLiquidity(t, a, f, i) ==
    LegendLiquidityOf(t, a, f, i, LiquidityGate(t, f, i),
        [t.MerkleProofsAccountLiquidityBefore[i] EXCEPT
            ![0] = LiquidityNodeHash(NewMiMC, a.AccountsInfoAfter[i].LiquidityInfo)])

NftGate(t, f, i) == And(NotNil(t.AccountsInfoBefore[i].AccountNftRoot), IsNftTxs(f))

\* verify account nft node hash
LegendNftOf(t, a, f, i, gate, updated) ==
    [t |-> [t EXCEPT !.MerkleProofsAccountNftBefore[i] = updated],
     acc |-> [a EXCEPT !.NewAccountNftRoot =
                UpdateMerkleProof(NewMiMC, updated, t.MerkleProofsHelperAccountNftBefore[i])],
     checks |->
        << <<(<<"NftNodeHash", i, 0>>),
             IsVariableEqual(gate, t.MerkleProofsAccountNftBefore[i][0],
                NftNodeHash(NewMiMC, t.AccountsInfoBefore[i].NftInfo))>>,
           <<(<<"NftRoot", i, 0>>),
             VerifyMerkleProof(gate, NewMiMC, t.AccountsInfoBefore[i].AccountNftRoot,
                               t.MerkleProofsAccountNftBefore[i],
                               t.MerkleProofsHelperAccountNftBefore[i])>> >>]

LegendNft(t, a, f, i) ==
    LegendNftOf(t, a, f, i, NftGate(t, f, i),
        [t.MerkleProofsAccountNftBefore[i] EXCEPT
            ![0] = NftNodeHash(NewMiMC, a.AccountsInfoAfter[i].NftInfo)])

\* verify account node hash
LegendAccountNodeOf(t, a, i, gate, updated) ==
    [t |-> [t EXCEPT !.MerkleProofsAccountBefore[i] = updated],
     acc |-> [a EXCEPT !.NewAccountRoot =
                UpdateMerkleProof(NewMiMC, updated, t.MerkleProofsHelperAccountBefore[i])],
     checks |->
        << <<(<<"AccountNodeHash", i, 0>>),
             IsVariableEqual(gate, t.MerkleProofsAccountBefore[i][0],
                AccountNodeHash(NewMiMC, t.AccountsInfoBefore[i],
                    t.AccountsInfoBefore[i].AccountAssetsRoot,
                    t.AccountsInfoBefore[i].AccountLiquidityRoot,
                    t.AccountsInfoBefore[i].AccountNftRoot))>>,
           <<(<<"AccountRoot", i, 0>>),
             VerifyMerkleProof(gate, NewMiMC, t.AccountRootBefore,
                               t.MerkleProofsAccountBefore[i],
                               t.MerkleProofsHelperAccountBefore[i])>> >>]

LegendAccountNode(t, a, i) ==
    LegendAccountNodeOf(t, a, i, NotNil(t.AccountRootBefore),
        [t.MerkleProofsAccountBefore[i] EXCEPT
            ![0] = AccountNodeHash(NewMiMC, a.AccountsInfoAfter[i], a.NewAccountAssetsRoot,
                                   a.NewAccountLiquidityRoot, a.NewAccountNftRoot)])

----------------------------------------------------------------------------
(* The zecrey-legend witnesses of the model.  A case is the TxType, which  *)
(* trees of the window are not nil, the claimed root after, and whether    *)
(* the signature and the active tx info are valid.                         *)

LegendScenarios == {"nil", "assets", "liquidityOwnRoot", "liquidityNftRoot", "nft", "account"}

LegendCases ==
    [txType : LegendTxTypeValues, scenario : LegendScenarios, rootAfter : 0 .. HashRange - 1,
     sigOk : BOOLEAN, infoOk : BOOLEAN]

LegendRecordOf(i) ==
    [AccountIndex |-> i + 1,
     AccountName |-> i + 11,
     AccountPk |-> [A |-> [X |-> i + 1, Y |-> i + 2]],
     Nonce |-> i,
     AccountAssetsRoot |-> NilHash,
     AccountLiquidityRoot |-> NilHash,
     AccountNftRoot |-> NilHash,
     AssetsInfo |-> [j \in AssetSlots |-> [AssetId |-> j + 1, Balance |-> i + j]],
     LiquidityInfo |-> [PairIndex |-> 1, AssetAId |-> 1, AssetAAmount |-> 4, AssetBId |-> 2,
                        AssetBAmount |-> 5, LpAmount |-> i + 2],
     NftInfo |-> [NftAssetId |-> 1, NftIndex |-> i, CreatorIndex |-> 1, NftContentHash |-> 3,
                  AssetId |-> 1, AssetAmount |-> 2, NftL1Address |-> 0, NftL1TokenId |-> 0]]

LegendAssetLeaves(r) ==
    Table([n \in LeafSlots |->
        IF n \in AssetSlots THEN AssetNodeHash(NewMiMC, r.AssetsInfo[n]) ELSE 0])

LegendLiquidityLeaves(r) ==
    Table([n \in LeafSlots |-> IF n = 0 THEN LiquidityNodeHash(NewMiMC, r.LiquidityInfo) ELSE 0])

LegendNftLeaves(r) ==
    Table([n \in LeafSlots |-> IF n = 0 THEN NftNodeHash(NewMiMC, r.NftInfo) ELSE 0])

\* a root other than r and other than the nil hash
OtherRoot(r) == CHOOSE v \in 0 .. HashRange - 1 : v # r /\ v # NilHash

\* the record of slot i with the roots of the scenario
LegendRecordIn(sc, r) ==
    CASE sc = "assets" -> [r EXCEPT !.AccountAssetsRoot = TreeRoot(LegendAssetLeaves(r))]
      [] sc = "liquidityOwnRoot" ->
            [r EXCEPT !.AccountLiquidityRoot = TreeRoot(LegendLiquidityLeaves(r))]
      [] sc = "liquidityNftRoot" ->
            [r EXCEPT !.AccountLiquidityRoot = OtherRoot(TreeRoot(LegendLiquidityLeaves(r))),
                      !.AccountNftRoot = TreeRoot(LegendLiquidityLeaves(r))]
      [] sc = "nft" -> [r EXCEPT !.AccountNftRoot = TreeRoot(LegendNftLeaves(r))]
      [] OTHER -> r

LegendRecords(sc) == Table([i \in Slots |-> LegendRecordIn(sc, LegendRecordOf(i))])

LegendAccountLeaves(recs) ==
    Table([n \in LeafSlots |->
        IF n \in Slots
        THEN AccountNodeHash(NewMiMC, recs[n], recs[n].AccountAssetsRoot,
                             recs[n].AccountLiquidityRoot, recs[n].AccountNftRoot)
        ELSE 0])

\* the tx info of type n: the active one is filled in, the others are empty
LegendInfo(n, active, ok) ==
    [Ok |-> active /\ ok,
     Payload |-> IF active THEN LegendTxType[n] + 1 ELSE 0,
     Deltas |-> [i \in Slots |-> [j \in AssetSlots |->
                    IF active THEN (i + j + 1) % FieldModulus ELSE 0]],
     NftDeltas |-> [i \in Slots |-> IF active THEN 1 ELSE 0]]

LegendRawTx(cs, recs, leaves) ==
    [n \in {LegendInfoField(m) : m \in LegendInfoNames} |->
        LET m == CHOOSE k \in LegendInfoNames : LegendInfoField(k) = n
        IN  LegendInfo(m, LegendTxType[m] = cs.txType, cs.infoOk)]
    @@
    [TxType |-> cs.txType,
     Signature |-> [Msg |-> 0, Pk |-> recs[0].AccountPk],
     AccountRootBefore |-> IF cs.scenario = "account" THEN TreeRoot(leaves) ELSE NilHash,
     AccountsInfoBefore |-> recs,
     MerkleProofsAccountAssetsBefore |->
        [i \in Slots |-> [j \in AssetSlots |-> TreePath(LegendAssetLeaves(recs[i]), j)]],
     MerkleProofsHelperAccountAssetsBefore |->
        [i \in Slots |-> [j \in AssetSlots |-> TreeHelper(j)]],
     MerkleProofsAccountLiquidityBefore |->
        [i \in Slots |-> TreePath(LegendLiquidityLeaves(recs[i]), 0)],
     MerkleProofsHelperAccountLiquidityBefore |-> [i \in Slots |-> TreeHelper(0)],
     MerkleProofsAccountNftBefore |-> [i \in Slots |-> TreePath(LegendNftLeaves(recs[i]), 0)],
     MerkleProofsHelperAccountNftBefore |-> [i \in Slots |-> TreeHelper(0)],
     MerkleProofsAccountBefore |-> [i \in Slots |-> TreePath(leaves, i)],
     MerkleProofsHelperAccountBefore |-> [i \in Slots |-> TreeHelper(i)],
     AccountRootAfter |-> cs.rootAfter]

\* the signature of the account of slot 0 on the message of the type, or on another
LegendSigned(cs, t) ==
    [t EXCEPT !.Signature.Msg =
        (HashVal(t, LegendTxFlags(t.TxType)) + (IF cs.sigOk THEN 0 ELSE 1)) % HashRange]

LegendBuildWith(cs, recs) == LegendSigned(cs, LegendRawTx(cs, recs, LegendAccountLeaves(recs)))

LegendBuildTx(cs) == LegendBuildWith(cs, LegendRecords(cs.scenario))

----------------------------------------------------------------------------
(* The zecrey-legend pass *)

LegendNoResult ==
    [AccountsInfoAfter |-> <<>>, NewAccountRoot |-> 0, NewAccountAssetsRoot |-> 0,
     NewAccountLiquidityRoot |-> 0, NewAccountNftRoot |-> 0]

LegendInit ==
    /\ \E cs \in LegendCases : witness = LegendBuildTx(cs)
    /\ tx = witness
    /\ pc = "legendDecode"
    /\ idx = 0
    /\ flags = NoFlags
    /\ acc = LegendNoResult
    /\ hFunc = NewMiMC
    /\ emitted = <<>>
    /\ violated = {}

\* compute tx type
LegendDecode ==
    /\ pc = "legendDecode"
    /\ flags' = LegendTxFlags(tx.TxType)
    /\ pc' = "legendSignature"
    /\ UNCHANGED <<witness, tx, idx, acc, hFunc, emitted, violated>>

\* get hash value from tx based on tx type, verify signature
LegendSignature ==
    /\ pc = "legendSignature"
    /\ Emit(<< <<(<<"Signature", 0, 0>>),
                 VerifyEddsaSig(NotNoSignatureTx(flags), HashVal(tx, flags),
                                tx.AccountsInfoBefore[0].AccountPk, tx.Signature)>> >>)
    /\ hFunc' = Reset(hFunc)
    /\ pc' = "legendVerify"
    /\ UNCHANGED <<witness, tx, idx, flags, acc>>

\* verify transactions
LegendVerifyTxs ==
    /\ pc = "legendVerify"
    /\ Emit(VerifyTxsChecks(tx, flags))
    /\ pc' = "legendUpdate"
    /\ UNCHANGED <<witness, tx, idx, flags, acc, hFunc>>

\* the deltas of the type, update accounts
LegendUpdateAccounts ==
    /\ pc = "legendUpdate"
    /\ acc' = [LegendNoResult EXCEPT
                !.AccountsInfoAfter =
                    UpdateAccounts(tx.AccountsInfoBefore,
                                   DeltasFrom(tx, flags, Len(DeltaSelectOrder)),
                                   NftDeltasFrom(tx, flags, Len(DeltaSelectOrder))),
                !.NewAccountRoot = tx.MerkleProofsAccountBefore[0][Last]]
    /\ pc' = "legendAssets"
    /\ idx' = 0
    /\ UNCHANGED <<witness, tx, flags, hFunc, emitted, violated>>

LegendApply(s) ==
    /\ tx' = s.t
    /\ acc' = s.acc
    /\ Emit(s.checks)
    /\ hFunc' = Reset(hFunc)

\* one slot: the asset entries
LegendAssetsStep ==
    /\ pc = "legendAssets"
    /\ LegendApply(LegendAssetsFrom(LegendSlotStart(tx, acc, idx), idx, 0))
    /\ pc' = "legendLiquidity"
    /\ UNCHANGED <<witness, idx, flags>>

\* one slot: the liquidity position
LegendLiquidityStep ==
    /\ pc = "legendLiquidity"
    /\ LegendApply(LegendLiquidity(tx, acc, flags, idx))
    /\ pc' = "legendNft"
    /\ UNCHANGED <<witness, idx, flags>>

\* one slot: the nft
LegendNftStep ==
    /\ pc = "legendNft"
    /\ LegendApply(LegendNft(tx, acc, flags, idx))
    /\ pc' = "legendAccount"
    /\ UNCHANGED <<witness, idx, flags>>

\* one slot: the account node
LegendAccountStep ==
    /\ pc = "legendAccount"
    /\ LegendApply(LegendAccountNode(tx, acc, idx))
    /\ idx' = IF idx + 1 = NbAccountsPerTx THEN 0 ELSE idx + 1
    /\ pc' = IF idx + 1 = NbAccountsPerTx THEN "legendDone" ELSE "legendAssets"
    /\ UNCHANGED <<witness, flags>>

LegendNext ==
    \/ LegendDecode
    \/ LegendSignature
    \/ LegendVerifyTxs
    \/ LegendUpdateAccounts
    \/ LegendAssetsStep
    \/ LegendLiquidityStep
    \/ LegendNftStep
    \/ LegendAccountStep

LegendSpec == LegendInit /\ [][LegendNext]_vars

LegendDone == pc = "legendDone"
LegendAccepted == LegendDone /\ violated = {}

(* C12: the transaction is accepted only if the root recomputed after      *)
(* updating the leaves of all NbAccountsPerTx window slots, the final      *)
(* NewAccountRoot, equals the claimed AccountRootAfter.                    *)
C12_RootAfterBound ==
    LegendAccepted => acc.NewAccountRoot = tx.AccountRootAfter

(* C18: each sub-tree of a slot is authenticated against its own root; a   *)
(* liquidity path that does not hash to AccountLiquidityRoot is rejected   *)
(* in a liquidity transaction with a non-nil liquidity root.               *)
C18_LiquidityOwnRoot ==
    (/\ LegendDone
     /\ IsLiquidityTx(flags) = 1
     /\ \E i \in Slots :
            /\ witness.AccountsInfoBefore[i].AccountLiquidityRoot # NilHash
            /\ MerkleRootOf(NewMiMC, witness.MerkleProofsAccountLiquidityBefore[i],
                            witness.MerkleProofsHelperAccountLiquidityBefore[i])
                    # witness.AccountsInfoBefore[i].AccountLiquidityRoot)
    => violated # {}

----------------------------------------------------------------------------
(* SetTxWitness (zecrey lines 409-733, zecrey-legend lines 411-516).  A    *)
(* witness field is a tuple: <<"unset">> (the zero value of the named      *)
(* result), <<"empty">> (the canonical empty witness), <<"onError">> (what *)
(* a failing constructor returned), or one naming what it was built from.  *)
(* The input oTx gives TxType, the dynamic type of OProof, and which       *)
(* constructor, if any, fails.                                             *)

BundleFields ==
    {"DepositTxInfo", "LockTxInfo", "UnlockProof", "TransferProof", "SwapProof",
     "AddLiquidityProof", "RemoveLiquidityProof", "WithdrawProof"}

ProofKinds ==
    {"DepositOrLockTx", "UnlockProof", "TransferProof", "SwapProof", "AddLiquidityProof",
     "RemoveLiquidityProof", "WithdrawProof"}

Failures ==
    {[at |-> "none", k |-> 0], [at |-> "proof", k |-> 0]}
    \cup {[at |-> "range", k |-> k] : k \in RangeSlots}
    \cup {[at |-> "accountBefore", k |-> i] : i \in Slots}

ZeroWitness ==
    [f \in BundleFields |-> <<"unset">>] @@
    [TxType |-> <<"unset">>,
     RangeProofs |-> [k \in RangeSlots |-> <<"unset">>],
     AccountRootBefore |-> <<"unset">>,
     AccountsInfoBefore |-> [i \in Slots |-> <<"unset">>],
     MerkleProofsAccountAssetsBefore |-> [i \in Slots |-> <<>>],
     AccountRootAfter |-> <<"unset">>,
     AccountsInfoAfter |-> [i \in Slots |-> <<"unset">>],
     MerkleProofsAfter |-> <<"unset">>]

Populated(v) == v[1] \notin {"unset", "onError"}

\* some field of witness w is populated
AnyPopulated(w) ==
    \/ \E f \in DOMAIN w \ {"RangeProofs", "AccountsInfoBefore", "AccountsInfoAfter",
                            "MerkleProofsAccountAssetsBefore"} :
            Populated(w[f])
    \/ \E i \in Slots : w.MerkleProofsAccountAssetsBefore[i] # <<>>
    \/ \E f \in {"RangeProofs", "AccountsInfoBefore", "AccountsInfoAfter"} \cap DOMAIN w :
            \E k \in DOMAIN w[f] : Populated(w[f][k])

\* the statements of a case of the switch, in the order of the source
AssignType == [op |-> "type"]
Empty(f) == [op |-> "empty", field |-> f]
Payload(f) == [op |-> "payload", field |-> f]
Construct(f) == [op |-> "construct", field |-> f]
EmptyRange(k) == [op |-> "emptyRange", slot |-> k]
Range(k, src) == [op |-> "range", slot |-> k, src |-> src]
CopyRange(k, from) == [op |-> "copyRange", slot |-> k, from |-> from]

\* the payload type a case converts OProof to; "" when it converts nothing
CaseKind(txType) ==
    CASE txType \in {TxTypeDeposit, TxTypeLock} -> "DepositOrLockTx"
      [] txType = TxTypeUnlock -> "UnlockProof"
      [] txType = TxTypeTransfer -> "TransferProof"
      [] txType = TxTypeSwap -> "SwapProof"
      [] txType = TxTypeAddLiquidity -> "AddLiquidityProof"
      [] txType = TxTypeRemoveLiquidity -> "RemoveLiquidityProof"
      [] txType = TxTypeWithdraw -> "WithdrawProof"
      [] OTHER -> ""

CaseProgram(txType) ==
    CASE txType = TxTypeNoop ->
            <<AssignType, Empty("DepositTxInfo"), Empty("LockTxInfo"), Empty("UnlockProof"),
              Empty("TransferProof"), Empty("SwapProof"), Empty("AddLiquidityProof"),
              Empty("RemoveLiquidityProof"), Empty("WithdrawProof"),
              EmptyRange(0), EmptyRange(1), EmptyRange(2)>>
      [] txType = TxTypeDeposit ->
            <<AssignType, Construct("DepositTxInfo"), Empty("UnlockProof"),
              Empty("TransferProof"), Empty("SwapProof"), Empty("AddLiquidityProof"),
              Empty("RemoveLiquidityProof"), Empty("WithdrawProof"),
              EmptyRange(0), EmptyRange(1), EmptyRange(2)>>
      [] txType = TxTypeLock ->
            <<AssignType, Empty("DepositTxInfo"), Construct("LockTxInfo"), Empty("UnlockProof"),
              Empty("TransferProof"), Empty("SwapProof"), Empty("AddLiquidityProof"),
              Empty("RemoveLiquidityProof"), Empty("WithdrawProof"),
              EmptyRange(0), EmptyRange(1), EmptyRange(2)>>
      [] txType = TxTypeTransfer ->
            <<AssignType, Empty("DepositTxInfo"), Empty("LockTxInfo"), Empty("UnlockProof"),
              Payload("TransferProof"),
              Range(0, "SubProofs[0].BStarRangeProof"), Range(1, "SubProofs[1].BStarRangeProof"),
              Range(2, "SubProofs[2].BStarRangeProof"),
              Empty("SwapProof"), Empty("AddLiquidityProof"), Empty("RemoveLiquidityProof"),
              Empty("WithdrawProof")>>
      [] txType = TxTypeSwap ->
            <<AssignType, Empty("DepositTxInfo"), Empty("LockTxInfo"), Empty("UnlockProof"),
              Empty("TransferProof"), Payload("SwapProof"),
              Range(0, "ARangeProof"), Range(1, "GasFeePrimeRangeProof"), CopyRange(2, 1),
              Empty("AddLiquidityProof"), Empty("RemoveLiquidityProof"),
              Empty("WithdrawProof")>>
      [] txType = TxTypeAddLiquidity ->
            <<AssignType, Empty("DepositTxInfo"), Empty("LockTxInfo"), Empty("UnlockProof"),
              Empty("TransferProof"), Empty("SwapProof"), Payload("AddLiquidityProof"),
              Range(0, "ARangeProof"), Range(1, "BRangeProof"),
              Range(2, "GasFeePrimeRangeProof"),
              Empty("RemoveLiquidityProof"), Empty("WithdrawProof")>>
      [] txType = TxTypeRemoveLiquidity ->
            <<AssignType, Empty("DepositTxInfo"), Empty("LockTxInfo"), Empty("UnlockProof"),
              Empty("TransferProof"), Empty("SwapProof"), Empty("AddLiquidityProof"),
              Payload("RemoveLiquidityProof"),
              Range(0, "LPRangeProof"), Range(1, "GasFeePrimeRangeProof"), CopyRange(2, 0),
              Empty("WithdrawProof")>>
      [] txType = TxTypeUnlock ->
            <<AssignType, Empty("DepositTxInfo"), Empty("LockTxInfo"), Payload("UnlockProof"),
              Empty("TransferProof"), Empty("SwapProof"), Empty("AddLiquidityProof"),
              Empty("RemoveLiquidityProof"), Empty("WithdrawProof"),
              Range(0, "GasFeePrimeRangeProof"), CopyRange(1, 0), CopyRange(2, 0)>>
      [] txType = TxTypeWithdraw ->
            <<AssignType, Empty("DepositTxInfo"), Empty("LockTxInfo"), Empty("UnlockProof"),
              Empty("TransferProof"), Empty("SwapProof"), Empty("AddLiquidityProof"),
              Empty("RemoveLiquidityProof"), Payload("WithdrawProof"),
              Range(0, "BPrimeRangeProof"), Range(1, "GasFeePrimeRangeProof"), CopyRange(2, 0)>>

\* the constructor called by statement s fails on input o
StatementFails(s, o) ==
    \/ s.op = "construct" /\ o.fails.at = "proof"
    \/ s.op = "range" /\ o.fails.at = "range" /\ o.fails.k = s.slot

\* as Execute, but a copied range-proof slot is always taken from slot 1
ExecuteCopySlot1(w, s, o) ==
    CASE s.op = "type" -> [w EXCEPT !.TxType = <<"type", o.TxType>>]
      [] s.op = "empty" -> [w EXCEPT ![s.field] = <<"empty">>]
      [] s.op = "payload" -> [w EXCEPT ![s.field] = <<"payload", o.OProof>>]
      [] s.op = "construct" ->
            [w EXCEPT ![s.field] = IF StatementFails(s, o) THEN <<"onError">>
                                   ELSE <<"payload", o.OProof>>]
      [] s.op = "emptyRange" -> [w EXCEPT !.RangeProofs[s.slot] = <<"empty">>]
      [] s.op = "range" ->
            [w EXCEPT !.RangeProofs[s.slot] = IF StatementFails(s, o) THEN <<"onError">>
                                              ELSE <<"range", s.src>>]
      [] s.op = "copyRange" -> [w EXCEPT !.RangeProofs[s.slot] = w.RangeProofs[1]]

\* witness w after statement s; a failing constructor's result is assigned all the same
Execute(w, s, o) ==
    CASE s.op = "type" -> [w EXCEPT !.TxType = <<"type", o.TxType>>]
      [] s.op = "empty" -> [w EXCEPT ![s.field] = <<"empty">>]
      [] s.op = "payload" -> [w EXCEPT ![s.field] = <<"payload", o.OProof>>]
      [] s.op = "construct" ->
            [w EXCEPT ![s.field] = IF StatementFails(s, o) THEN <<"onError">>
                                   ELSE <<"payload", o.OProof>>]
      [] s.op = "emptyRange" -> [w EXCEPT !.RangeProofs[s.slot] = <<"empty">>]
      [] s.op = "range" ->
            [w EXCEPT !.RangeProofs[s.slot] = IF StatementFails(s, o) THEN <<"onError">>
                                              ELSE <<"range", s.src>>]
      [] s.op = "copyRange" -> [w EXCEPT !.RangeProofs[s.slot] = w.RangeProofs[s.from]]

\* run the statements from the n-th on; stop at the first failing constructor
RECURSIVE RunFrom(_, _, _, _)
RunFrom(w, prog, n, o) ==
    IF n > Len(prog) THEN [witness |-> w, err |-> "nil"]
    ELSE IF StatementFails(prog[n], o)
         THEN [witness |-> Execute(w, prog[n], o), err |-> "constructor failed"]
         ELSE RunFrom(Execute(w, prog[n], o), prog, n + 1, o)

\* one case of the switch: convert the payload, build the proof witness, assign
RunCase(w, o) ==
    IF CaseKind(o.TxType) # "" /\ o.OProof # CaseKind(o.TxType)
    THEN [witness |-> w, err |-> "unable to convert proof to special type"]
    ELSE IF CaseKind(o.TxType) \notin {"", "DepositOrLockTx"} /\ o.fails.at = "proof"
         THEN [witness |-> w, err |-> "constructor failed"]
         ELSE RunFrom(w, CaseProgram(o.TxType), 1, o)

\* the loop over the account records of one side, from slot i on
RECURSIVE SetAccountsFrom(_, _, _, _, _)
SetAccountsFrom(w, field, at, i, o) ==
    IF i = NbAccountsPerTx THEN [witness |-> w, err |-> "nil"]
    ELSE IF o.fails.at = at /\ o.fails.k = i
         THEN [witness |-> [w EXCEPT ![field][i] = <<"onError">>], err |-> "constructor failed"]
         ELSE SetAccountsFrom([w EXCEPT ![field][i] = <<"account", i>>], field, at, i + 1, o)

SetTxWitnessInputs ==
    [TxType : TxTypeValues, OProof : ProofKinds, fails : Failures]

\* the level constants the package is built with; a helper has one entry less
\* than its path
LevelConstants ==
    [AssetMerkleLevels : 1 .. MaxTreeLevels, LiquidityMerkleLevels : 1 .. MaxTreeLevels,
     NftMerkleLevels : 1 .. MaxTreeLevels, AccountMerkleLevels : 1 .. MaxTreeLevels]

HelperLevels(n) == n - 1

\* the type of a zecrey-legend oTx, whether an account witness fails, and the
\* level constants
LegendSetTxWitnessInputs ==
    [TxType : LegendTxTypeValues,
     fails : {[at |-> "none", k |-> 0]} \cup {[at |-> "accountBefore", k |-> i] : i \in Slots},
     levels : LevelConstants]

\* the entries of one slot's Merkle arrays that hold the entry of oTx
NoEntryCopied ==
    [AssetsPath |-> {}, AssetsHelper |-> {}, LiquidityPath |-> {}, LiquidityHelper |-> {},
     NftPath |-> {}, NftHelper |-> {}, AccountPath |-> {}, AccountHelper |-> {}]

LegendZeroWitness ==
    [f \in {LegendInfoField(m) : m \in LegendInfoNames} |-> <<"unset">>] @@
    [TxType |-> <<"unset">>, Signature |-> <<"unset">>, AccountRootBefore |-> <<"unset">>,
     AccountRootAfter |-> <<"unset">>, AccountsInfoBefore |-> [i \in Slots |-> <<"unset">>],
     MerkleProofsBefore |-> [i \in Slots |-> NoEntryCopied]]

LegendTypeOf(txType) == CHOOSE n \in LegendTypeNames : LegendTxType[n] = txType

SetTxWitnessInit ==
    /\ \/ witness \in SetTxWitnessInputs /\ pc = "switch" /\ tx = ZeroWitness
       \/ witness \in LegendSetTxWitnessInputs /\ pc = "legendEmpty" /\ tx = LegendZeroWitness
    /\ acc = "nil"
    /\ idx = 0
    /\ flags = NoFlags
    /\ hFunc = NewMiMC
    /\ emitted = <<>>
    /\ violated = {}

Return(r, next) ==
    /\ tx' = r.witness
    /\ acc' = r.err
    /\ pc' = IF r.err = "nil" THEN next ELSE "returned"
    /\ UNCHANGED <<witness, idx, flags, hFunc, emitted, violated>>

\* the switch: a case of the enumeration
SetCase ==
    /\ pc = "switch"
    /\ witness.TxType \in TxTypeEnum
    /\ Return(RunCase(tx, witness), "accountsBefore")

\* the switch: default
SetInvalidType ==
    /\ pc = "switch"
    /\ witness.TxType \notin TxTypeEnum
    /\ Return([witness |-> tx, err |-> "invalid tx type"], "accountsBefore")

\* account root before, account before info
SetAccountsBefore ==
    /\ pc = "accountsBefore"
    /\ Return(SetAccountsFrom([tx EXCEPT !.AccountRootBefore = <<"copied">>],
                              "AccountsInfoBefore", "accountBefore", 0, witness),
              "merkleBefore")

\* before account asset merkle proof: the first assignment, at i = 0 and j = 0,
\* indexes the slice MerkleProofsAccountAssetsBefore[0], which the named result
\* holds as declared and no statement has allocated; an index past the length
\* of a slice is a run-time panic, which ends the call without a return value
\* (the statements after it, lines 673-732, are then never reached)
SetMerkleBefore ==
    /\ pc = "merkleBefore"
    /\ IF 0 < Len(tx.MerkleProofsAccountAssetsBefore[0])
       THEN /\ tx' = [tx EXCEPT !.MerkleProofsAccountAssetsBefore[0][1] = <<"copied">>]
            /\ pc' = "merkleBeforeRest"
            /\ acc' = acc
       ELSE /\ tx' = tx
            /\ pc' = "panicked"
            /\ acc' = "index out of range"
    /\ UNCHANGED <<witness, idx, flags, hFunc, emitted, violated>>

\* zecrey-legend: the thirteen tx infos set to their empty witnesses
LegendSetEmpty ==
    /\ pc = "legendEmpty"
    /\ Return([witness |-> [f \in DOMAIN tx |->
                    IF f \in {LegendInfoField(m) : m \in LegendInfoNames}
                    THEN <<"empty">> ELSE tx[f]],
               err |-> "nil"], "legendSwitch")

\* zecrey-legend: the switch
LegendSetCase ==
    /\ pc = "legendSwitch"
    /\ Return(
        IF witness.TxType \notin {LegendTxType[n] : n \in LegendTypeNames}
        THEN [witness |-> tx, err |-> "invalid oTx type"]
        ELSE IF witness.TxType = LegendTxType.EmptyTx THEN [witness |-> tx, err |-> "nil"]
        ELSE [witness |->
                [tx EXCEPT ![LegendInfoField(LegendTypeOf(witness.TxType))] =
                    <<"payload", LegendInfoField(LegendTypeOf(witness.TxType))>>],
              err |-> "nil"],
        "legendCommon")

\* the three copy loops of one slot: the entries each assignment writes
LegendMerkleCopied(L) ==
    [AssetsPath |-> {<<j, k>> : j \in AssetSlots, k \in 0 .. (L.AssetMerkleLevels - 1)},
     AssetsHelper |-> {<<j, k>> : j \in AssetSlots,
                        k \in (0 .. (L.AssetMerkleLevels - 1))
                                \ {HelperLevels(L.AssetMerkleLevels)}},
     LiquidityHelper |->
        IF (0 .. (L.AssetMerkleLevels - 1)) \ {HelperLevels(L.AssetMerkleLevels)} = {}
        THEN {} ELSE AssetSlots,
     LiquidityPath |-> 0 .. (L.NftMerkleLevels - 1),
     NftPath |-> 0 .. (L.NftMerkleLevels - 1),
     NftHelper |-> (0 .. (L.NftMerkleLevels - 1)) \ {HelperLevels(L.NftMerkleLevels)},
     AccountPath |-> 0 .. (L.AccountMerkleLevels - 1),
     AccountHelper |-> (0 .. (L.AccountMerkleLevels - 1))
                            \ {HelperLevels(L.AccountMerkleLevels)}]

\* the entries the arrays of one slot have
LegendMerkleEntries(L) ==
    [AssetsPath |-> {<<j, k>> : j \in AssetSlots, k \in 0 .. (L.AssetMerkleLevels - 1)},
     AssetsHelper |-> {<<j, k>> : j \in AssetSlots,
                        k \in 0 .. (HelperLevels(L.AssetMerkleLevels) - 1)},
     LiquidityPath |-> 0 .. (L.LiquidityMerkleLevels - 1),
     LiquidityHelper |-> 0 .. (HelperLevels(L.LiquidityMerkleLevels) - 1),
     NftPath |-> 0 .. (L.NftMerkleLevels - 1),
     NftHelper |-> 0 .. (HelperLevels(L.NftMerkleLevels) - 1),
     AccountPath |-> 0 .. (L.AccountMerkleLevels - 1),
     AccountHelper |-> 0 .. (HelperLevels(L.AccountMerkleLevels) - 1)]

\* an assignment of the copy loops indexes an array past its end
IndexOutOfRange(L) ==
    \E f \in DOMAIN NoEntryCopied : ~(LegendMerkleCopied(L)[f] \subseteq LegendMerkleEntries(L)[f])

\* zecrey-legend: set common account & merkle parts, slot by slot
RECURSIVE LegendCommonFrom(_, _, _)
LegendCommonFrom(w, i, o) ==
    IF i = NbAccountsPerTx THEN [witness |-> w, err |-> "nil"]
    ELSE IF o.fails.at = "accountBefore" /\ o.fails.k = i
         THEN [witness |-> [w EXCEPT !.AccountsInfoBefore[i] = <<"onError">>],
               err |-> "constructor failed"]
         ELSE IF IndexOutOfRange(o.levels)
              THEN [witness |-> [w EXCEPT !.AccountsInfoBefore[i] = <<"account", i>>],
                    err |-> "index out of range"]
              ELSE LegendCommonFrom(
                        [w EXCEPT !.AccountsInfoBefore[i] = <<"account", i>>,
                                  !.MerkleProofsBefore[i] = LegendMerkleCopied(o.levels)],
                        i + 1, o)

\* a run-time panic ends the call without a return value
LegendSetCommon ==
    /\ pc = "legendCommon"
    /\ LET r == LegendCommonFrom([tx EXCEPT !.AccountRootBefore = <<"copied">>,
                                            !.AccountRootAfter = <<"copied">>], 0, witness)
       IN  /\ tx' = r.witness
           /\ acc' = r.err
           /\ pc' = IF r.err = "index out of range" THEN "panicked" ELSE "returned"
    /\ UNCHANGED <<witness, idx, flags, hFunc, emitted, violated>>

SetTxWitnessNext ==
    \/ SetCase
    \/ SetInvalidType
    \/ SetAccountsBefore
    \/ SetMerkleBefore
    \/ LegendSetEmpty
    \/ LegendSetCase
    \/ LegendSetCommon

SetTxWitnessSpec == SetTxWitnessInit /\ [][SetTxWitnessNext]_vars

Returned == pc = "returned"
IsLegendInput == "OProof" \notin DOMAIN witness

(* C15: when the payload is not of the type the declared TxType requires,  *)
(* when TxType is outside the enumeration, or when a sub-constructor       *)
(* fails, zecrey SetTxWitness returns a non-nil error and a witness with   *)
(* no field populated.                                                     *)
C15_NoPartialWitness ==
    (Returned /\ ~IsLegendInput) =>
        /\ (\/ witness.TxType \notin TxTypeEnum
            \/ (CaseKind(witness.TxType) # "" /\ witness.OProof # CaseKind(witness.TxType))
            \/ (witness.fails.at = "accountBefore")
            \/ (witness.fails.at = "proof" /\ CaseKind(witness.TxType) # "")
            \/ (witness.fails.at = "range" /\ witness.TxType \in TxTypeEnum
                /\ \E n \in DOMAIN CaseProgram(witness.TxType) :
                        StatementFails(CaseProgram(witness.TxType)[n], witness)))
           => acc # "nil"
        /\ acc # "nil" => ~AnyPopulated(tx)

\* the switch of zecrey SetTxWitness has completed without an error
SwitchCompleted ==
    /\ ~IsLegendInput
    /\ \/ pc \in {"accountsBefore", "merkleBefore", "panicked"}
       \/ Returned /\ tx.AccountRootBefore = <<"copied">>

(* C16: for every TxType of the enumeration the returned witness has       *)
(* exactly the active operation's bundle populated from the payload and    *)
(* every other operation bundle set to its canonical empty witness; for    *)
(* the no-op type all bundles are empty.                                   *)
ActiveField(txType) ==
    CASE txType = TxTypeDeposit -> "DepositTxInfo"
      [] txType = TxTypeLock -> "LockTxInfo"
      [] txType \in {TxTypeNoop} -> ""
      [] OTHER -> OpField(ActiveOp(txType))

C16_OneBundlePopulated ==
    /\ (IsLegendInput /\ Returned /\ acc = "nil") =>
            \A n \in LegendInfoNames :
                tx[LegendInfoField(n)] =
                    IF LegendTxType[n] = witness.TxType
                    THEN <<"payload", LegendInfoField(n)>> ELSE <<"empty">>
    /\ SwitchCompleted =>
            \A f \in BundleFields :
                tx[f] = IF f = ActiveField(witness.TxType)
                        THEN <<"payload", witness.OProof>> ELSE <<"empty">>

(* C25 (as the code has it): for the operation types that supply only two  *)
(* range proofs, zecrey SetTxWitness fills range-proof slot 2 with a copy  *)
(* of slot 1 (the gas fee proof) for Swap, and with a copy of slot 0 (the  *)
(* LP proof, the balance proof) for RemoveLiquidity and Withdraw.          *)
TwoRangeProofTypes == {TxTypeSwap, TxTypeRemoveLiquidity, TxTypeWithdraw}

C25_Slot2Copies ==
    SwitchCompleted =>
        /\ witness.TxType = TxTypeSwap =>
                /\ tx.RangeProofs[2] = tx.RangeProofs[1]
                /\ tx.RangeProofs[2] = <<"range", "GasFeePrimeRangeProof">>
        /\ witness.TxType = TxTypeRemoveLiquidity =>
                /\ tx.RangeProofs[2] = tx.RangeProofs[0]
                /\ tx.RangeProofs[2] = <<"range", "LPRangeProof">>
        /\ witness.TxType = TxTypeWithdraw =>
                /\ tx.RangeProofs[2] = tx.RangeProofs[0]
                /\ tx.RangeProofs[2] = <<"range", "BPrimeRangeProof">>

C25_Witness ==
    /\ SwitchCompleted
    /\ witness.TxType = TxTypeWithdraw
    /\ tx.RangeProofs[2] = <<"range", "BPrimeRangeProof">>
    /\ tx.RangeProofs[1] = <<"range", "GasFeePrimeRangeProof">>

\* C25 as stated: slot 2 holds the same proof as slot 1 for all three types
C25_Slot2EqualsSlot1 ==
    (SwitchCompleted /\ witness.TxType \in TwoRangeProofTypes) =>
        tx.RangeProofs[2] = tx.RangeProofs[1]

(* C23: the witness returned by zecrey-legend SetTxWitness for a           *)
(* transaction of a valid type carries the transaction's own type:         *)
(* witness.TxType equals oTx.TxType.                                       *)
C23_LegendWitnessCarriesType ==
    (Returned /\ IsLegendInput /\ acc = "nil") => tx.TxType = <<"type", witness.TxType>>

(* C24: zecrey-legend SetTxWitness copies the Merkle-proof material        *)
(* completely and without out-of-range access: for any values of the level *)
(* constants the call does not panic, and when it returns nil every entry  *)
(* of every path and helper of every slot holds the entry of oTx.          *)
C24_MerkleMaterialCopied ==
    IsLegendInput =>
        /\ pc # "panicked"
        /\ (Returned /\ acc = "nil") =>
                \A i \in Slots : tx.MerkleProofsBefore[i] = LegendMerkleEntries(witness.levels)

(* C28: for every TxType of the enumeration with a payload of the matching *)
(* type and well-formed account data, zecrey SetTxWitness runs to          *)
(* completion without a run-time abort (and then returns err = nil with    *)
(* every path, helper and range-proof slot populated).                     *)
WellFormedInput ==
    /\ ~IsLegendInput
    /\ witness.TxType \in TxTypeEnum
    /\ CaseKind(witness.TxType) # "" => witness.OProof = CaseKind(witness.TxType)
    /\ witness.fails.at = "none"

C28_RunsToCompletion ==
    WellFormedInput =>
        /\ pc # "panicked"
        /\ Returned =>
                /\ acc = "nil"
                /\ \A k \in RangeSlots : Populated(tx.RangeProofs[k])
                /\ \A i \in Slots : Len(tx.MerkleProofsAccountAssetsBefore[i])
                                        = NbAccountAssetsPerAccount

----------------------------------------------------------------------------
(* C26: all MaxRangeProofCount range-proof slots are verified with one and *)
(* the same enable flag, which is 1 exactly when TxType is neither Deposit *)
(* nor Lock (so also for Noop and for TxType values outside the            *)
(* enumeration): once the loop has run, the check of slot k has failed     *)
(* exactly when the flag is 1 and the proof of slot k is bad; and every    *)
(* range proof is verified before any operation bundle.                    *)
RangeProofsVerified == pc \notin {"decode", "rangeProofs"}

C26_RangeProofsEnabled ==
    /\ RangeProofsVerified =>
        /\ RangeProofIsEnabled(flags) = IF tx.TxType \in {TxTypeDeposit, TxTypeLock} THEN 0 ELSE 1
        /\ \A k \in RangeSlots :
            /\ PositionsOf({"RangeProof"}) # {}
            /\ <<"RangeProof", k, 0>> \in violated
                <=> (tx.TxType \notin {TxTypeDeposit, TxTypeLock} /\ ~witness.RangeProofs[k].Ok)
    /\ \A p \in PositionsOf({"RangeProof"}) : \A q \in PositionsOf(BundleNames) : p < q
    /\ PositionsOf(BundleNames) # {} => Cardinality(PositionsOf({"RangeProof"})) = MaxRangeProofCount

C26_Witness ==
    /\ Done
    /\ tx.TxType \notin TxTypeEnum
    /\ <<"RangeProof", 2, 0>> \in violated
    /\ PositionsOf(BundleNames) # {}

----------------------------------------------------------------------------
(* The use of hFunc along a pass.  The calls on hFunc of VerifyTransaction *)
(* are the same for every witness; an event is the kind of the call and    *)
(* its source line: "write" (hFunc.Write, std.WritePointIntoBuf), "sum"    *)
(* (hFunc.Sum), "reset" (hFunc.Reset) and "gadget" (a call that receives   *)
(* hFunc).  The accumulator is "empty" after a reset, "absorbing" after a  *)
(* write and "used" after a sum or a gadget call.                          *)

Ev(op, line) == [op |-> op, line |-> line]

RECURSIVE Repeat(_, _)
Repeat(s, n) == IF n = 0 THEN <<>> ELSE s \o Repeat(s, n - 1)

\* zecrey VerifyTransaction, lines 149-405
ZecreyHasherEvents ==
    Repeat(<<Ev("gadget", 155), Ev("reset", 156)>>, MaxRangeProofCount)
    \o Repeat(<<Ev("write", 187), Ev("sum", 192), Ev("reset", 194),
                Ev("write", 196), Ev("write", 200), Ev("write", 201), Ev("sum", 202),
                Ev("reset", 204)>>
              \o Repeat(<<Ev("gadget", 207), Ev("reset", 211)>>, NbAccountAssetsPerAccount)
              \o <<Ev("gadget", 218), Ev("reset", 222), Ev("gadget", 231), Ev("reset", 235),
                   Ev("gadget", 241), Ev("reset", 245)>>,
              NbAccountsPerTx)
    \o <<Ev("gadget", 265), Ev("reset", 266), Ev("gadget", 276), Ev("reset", 277),
         Ev("gadget", 294), Ev("reset", 295), Ev("gadget", 312), Ev("reset", 313),
         Ev("gadget", 329), Ev("reset", 330), Ev("gadget", 341), Ev("reset", 342)>>
    \o Repeat(<<Ev("write", 363), Ev("sum", 368), Ev("reset", 370),
                Ev("write", 372), Ev("write", 376), Ev("write", 377), Ev("sum", 378),
                Ev("reset", 380),
                Ev("gadget", 382), Ev("reset", 386), Ev("gadget", 388), Ev("reset", 392),
                Ev("gadget", 394), Ev("reset", 398), Ev("gadget", 400), Ev("reset", 404)>>,
              NbAccountsPerTx)

\* one tree layer of zecrey-legend: node hash, verify, new node hash, update
LegendLayerEvents(line) ==
    <<Ev("reset", line[1]), Ev("write", line[2]), Ev("sum", line[3]), Ev("reset", line[4]),
      Ev("gadget", line[5]), Ev("reset", line[6]), Ev("write", line[7]), Ev("sum", line[8]),
      Ev("reset", line[9]), Ev("gadget", line[10])>>

\* zecrey-legend VerifyTransaction, lines 105-406
LegendHasherEvents ==
    <<Ev("gadget", 107), Ev("gadget", 109), Ev("gadget", 112), Ev("gadget", 115),
      Ev("gadget", 118), Ev("gadget", 121), Ev("gadget", 124), Ev("gadget", 127),
      Ev("gadget", 130), Ev("gadget", 133), Ev("reset", 135), Ev("gadget", 137)>>
    \o Repeat(Repeat(LegendLayerEvents(<<234, 235, 239, 243, 244, 252, 253, 257, 258, 262>>),
                     NbAccountAssetsPerAccount)
              \o LegendLayerEvents(<<265, 266, 274, 279, 280, 288, 289, 297, 298, 302>>)
              \o LegendLayerEvents(<<313, 314, 324, 329, 330, 338, 339, 349, 350, 354>>)
              \o LegendLayerEvents(<<365, 366, 376, 380, 381, 389, 390, 400, 401, 405>>),
              NbAccountsPerTx)

HasherInit ==
    /\ witness \in {"zecrey", "zecrey-legend"}
    /\ tx = IF witness = "zecrey" THEN ZecreyHasherEvents ELSE LegendHasherEvents
    /\ pc = "hashing"
    /\ idx = 1
    /\ acc = "empty"
    /\ flags = NoFlags
    /\ hFunc = NewMiMC
    /\ emitted = <<>>
    /\ violated = {}

\* the next call on hFunc is of kind op and leaves the accumulator in state after;
\* a call that absorbs data into a used accumulator is recorded with its line
HasherCall(op, after, absorbs) ==
    /\ pc = "hashing"
    /\ tx[idx].op = op
    /\ acc' = after
    /\ violated' = IF absorbs /\ acc = "used" THEN violated \cup {tx[idx].line} ELSE violated
    /\ idx' = idx + 1
    /\ pc' = IF idx = Len(tx) THEN "hashed" ELSE "hashing"
    /\ UNCHANGED <<witness, tx, flags, hFunc, emitted>>

HasherWrite == HasherCall("write", "absorbing", TRUE)
HasherSum == HasherCall("sum", "used", FALSE)
HasherReset == HasherCall("reset", "empty", FALSE)
HasherGadget == HasherCall("gadget", "used", TRUE)

HasherNext ==
    \/ HasherWrite
    \/ HasherSum
    \/ HasherReset
    \/ HasherGadget

HasherSpec == HasherInit /\ [][HasherNext]_vars

(* C21: hash reset discipline: in both zecrey VerifyTransaction and        *)
(* zecrey-legend VerifyTransaction, after every hFunc.Sum() and after      *)
(* every gadget call that receives hFunc, a hFunc.Reset() occurs before    *)
(* the next hFunc.Write or the next gadget call: no call absorbs data into *)
(* a used accumulator.                                                     *)
C21_ResetDiscipline == pc \in {"hashing", "hashed"} => violated = {}

----------------------------------------------------------------------------
(* C22: data-independent shape: the ordered sequence of checks emitted by  *)
(* zecrey VerifyTransaction is the same for any two witnesses, whatever    *)
(* their TxType and field values: it is the sequence of the pass on the    *)
(* canonical Noop witness.  Every operation sub-circuit is evaluated, and  *)
(* the pass is finished exactly when that whole sequence has been emitted. *)
ReferenceWitness ==
    BuildTx([txType |-> TxTypeNoop, config |-> "natural", pf |-> NoProofFault, af |-> NoFault])

Shape == Labels(PassChecks(ReferenceWitness))

C22_DataIndependentShape ==
    /\ Len(emitted) <= Len(Shape)
    /\ emitted = SubSeq(Shape, 1, Len(emitted))
    /\ Done <=> emitted = Shape
    /\ Done => BundleNames \subseteq EmittedNames

C22_Witness ==
    /\ Done
    /\ tx.TxType = TxTypeSwap
    /\ violated # {}
    /\ witness # ReferenceWitness
    /\ emitted = Shape

----------------------------------------------------------------------------
(* C27: in zecrey-legend VerifyTransaction the signature check is enabled  *)
(* exactly when TxType is none of EmptyTx, RegisterZns, Deposit and        *)
(* DepositNft, and it is made against the public key of window slot 0 and  *)
(* the message hash of the active type: the hash of the active type's tx   *)
(* info for the nine types of the select chain, the Transfer hash for      *)
(* every other TxType value; at most one flag of the chain is 1, so the    *)
(* chain taken in the opposite order selects the same hash.                *)
NoSignatureTypes == {LegendTxType[n] : n \in {"EmptyTx", "RegisterZns", "Deposit", "DepositNft"}}

\* the type whose hash is signed
HashedType(txType) ==
    IF \E k \in DOMAIN HashSelectOrder : LegendTxType[HashSelectOrder[k]] = txType
    THEN LegendTypeOf(txType) ELSE "Transfer"

ExpectedHash(t) ==
    ComputeHashFromTx(HashedType(t.TxType), t[LegendInfoField(HashedType(t.TxType))],
                      t.AccountsInfoBefore[0].Nonce, NewMiMC)

\* the select chain from the last type of the order down to the k-th
RECURSIVE HashValDownTo(_, _, _)
HashValDownTo(t, f, k) ==
    IF k > Len(HashSelectOrder)
    THEN ComputeHashFromTx("Transfer", t.TransferTxInfo, t.AccountsInfoBefore[0].Nonce, NewMiMC)
    ELSE Select(LegendFlagOf(f, HashSelectOrder[k]),
                ComputeHashFromTx(HashSelectOrder[k], t[LegendInfoField(HashSelectOrder[k])],
                                  t.AccountsInfoBefore[0].Nonce, NewMiMC),
                HashValDownTo(t, f, k + 1))

C27_SignatureCheck ==
    pc \notin {"legendDecode", "legendSignature"} =>
        /\ NotNoSignatureTx(flags) = IF tx.TxType \in NoSignatureTypes THEN 0 ELSE 1
        /\ HashVal(tx, flags) = ExpectedHash(tx)
        /\ HashValDownTo(tx, flags, 1) = HashVal(tx, flags)
        /\ Cardinality({k \in DOMAIN HashSelectOrder :
                            LegendFlagOf(flags, HashSelectOrder[k]) = 1}) <= 1
        /\ emitted[1] = <<"Signature", 0, 0>>
        /\ <<"Signature", 0, 0>> \in violated
            <=> /\ tx.TxType \notin NoSignatureTypes
                /\ ~VerifyEddsaSig(1, ExpectedHash(tx), tx.AccountsInfoBefore[0].AccountPk,
                                   tx.Signature)

C27_Witness ==
    /\ LegendDone
    /\ tx.TxType = LegendTxType.BuyNft
    /\ <<"Signature", 0, 0>> \in violated
    /\ ExpectedHash(tx) # ComputeHashFromTx("Transfer", tx.TransferTxInfo,
                                            tx.AccountsInfoBefore[0].Nonce, NewMiMC)

----------------------------------------------------------------------------
(* legendTxTypes: WithdrawNftTxInfo (src/unnamed/part_000).  An *big.Int   *)
(* is a record with a nil flag and a value, a byte slice a tuple, a string *)
(* a string.  The limits, ChainId and the helpers of the package are       *)
(* declared outside the file.                                              *)

Limits ==
    [minAccountIndex |-> 0, maxAccountIndex |-> 2, minTreasuryRate |-> 0, maxTreasuryRate |-> 2,
     minNftIndex |-> 0, maxNftIndex |-> 2, minCollectionId |-> 0, maxCollectionId |-> 2,
     minAssetId |-> 0, maxAssetId |-> 2, minPackedFeeAmount |-> 0, maxPackedFeeAmount |-> 30,
     minNonce |-> 0, ChainId |-> 1, HashLength |-> 2, PackedFeeExponents |-> 2,
     WordBytes |-> 2, ByteValues |-> 8]

BigInt(v) == [nil |-> FALSE, val |-> v]
NilBigInt == [nil |-> TRUE, val |-> 0]

ValidAddresses == {"0xA1", "0xB2"}
IsValidL1AddressOrEmpty(s) == s \in ValidAddresses \cup {""}
IsValidL1Address(s) == s \in ValidAddresses
IsValidHashBytes(b) == Len(b) = Limits.HashLength

\* the first failing check of ValidateWithdrawNftTxInfo, in the order of the source
NoError == [field |-> "", msg |-> "nil"]
Errorf(field, msg) == [field |-> field, msg |-> msg]

ValidateWithdrawNftTxInfo(txInfo) ==
    IF txInfo.AccountIndex < Limits.minAccountIndex
    THEN Errorf("AccountIndex", "should not be less than")
    ELSE IF txInfo.AccountIndex > Limits.maxAccountIndex
    THEN Errorf("AccountIndex", "should not be larger than")
    ELSE IF txInfo.CreatorAccountIndex < Limits.minAccountIndex
    THEN Errorf("CreatorAccountIndex", "should not be less than")
    ELSE IF txInfo.CreatorAccountIndex > Limits.maxAccountIndex
    THEN Errorf("CreatorAccountIndex", "should not be larger than")
    ELSE IF ~IsValidHashBytes(txInfo.CreatorAccountNameHash)
    THEN Errorf("CreatorAccountNameHash", "is invalid")
    ELSE IF txInfo.CreatorTreasuryRate < Limits.minTreasuryRate
    THEN Errorf("CreatorTreasuryRate", "should not be less than")
    ELSE IF txInfo.CreatorTreasuryRate > Limits.maxTreasuryRate
    THEN Errorf("CreatorTreasuryRate", "should not be larger than")
    ELSE IF txInfo.NftIndex < Limits.minNftIndex
    THEN Errorf("NftIndex", "should not be less than")
    ELSE IF txInfo.NftIndex > Limits.maxNftIndex
    THEN Errorf("NftIndex", "should not be larger than")
    ELSE IF ~IsValidHashBytes(txInfo.NftContentHash)
    THEN Errorf("NftContentHash", "is invalid")
    ELSE IF txInfo.NftL1Address # "" /\ ~IsValidL1Address(txInfo.NftL1Address)
    THEN Errorf("NftL1Address", "is invalid")
    ELSE IF ~txInfo.NftL1TokenId.nil /\ txInfo.NftL1TokenId.val < 0
    THEN Errorf("NftL1TokenId", "should not be less than")
    ELSE IF txInfo.CollectionId < Limits.minCollectionId
    THEN Errorf("CollectionId", "should not be less than")
    ELSE IF txInfo.CollectionId > Limits.maxCollectionId
    THEN Errorf("CollectionId", "should not be larger than")
    ELSE IF ~IsValidL1Address(txInfo.ToAddress)
    THEN Errorf("ToAddress", "is invalid")
    ELSE IF txInfo.GasAccountIndex < Limits.minAccountIndex
    THEN Errorf("GasAccountIndex", "should not be less than")
    ELSE IF txInfo.GasAccountIndex > Limits.maxAccountIndex
    THEN Errorf("GasAccountIndex", "should not be larger than")
    ELSE IF txInfo.GasFeeAssetId < Limits.minAssetId
    THEN Errorf("GasFeeAssetId", "should not be less than")
    ELSE IF txInfo.GasFeeAssetId > Limits.maxAssetId
    THEN Errorf("GasFeeAssetId", "should not be larger than")
    ELSE IF txInfo.GasFeeAssetAmount.nil
    THEN Errorf("GasFeeAssetAmount", "should not be nil")
    ELSE IF txInfo.GasFeeAssetAmount.val < Limits.minPackedFeeAmount
    THEN Errorf("GasFeeAssetAmount", "should not be less than")
    ELSE IF txInfo.GasFeeAssetAmount.val > Limits.maxPackedFeeAmount
    THEN Errorf("GasFeeAssetAmount", "should not be larger than")
    ELSE IF txInfo.ExpiredAt <= 0
    THEN Errorf("ExpiredAt", "should be larger than 0")
    ELSE IF txInfo.Nonce < Limits.minNonce
    THEN Errorf("Nonce", "should not be less than")
    ELSE NoError

\* ToPackedFee: a mantissa and a decimal exponent in one word; an amount that is
\* negative, too large or not of that form has no packed form.  The comparison of a
\* nil amount dereferences it unless the helper tests for nil first: onNil is the
\* outcome, "panic" or the error of the test.
RECURSIVE Pow10(_)
Pow10(e) == IF e = 0 THEN 1 ELSE 10 * Pow10(e - 1)

Exponents == 0 .. (Limits.PackedFeeExponents - 1)

IsPackable(amount) ==
    /\ ~amount.nil
    /\ amount.val >= 0
    /\ amount.val <= Limits.maxPackedFeeAmount
    /\ \E e \in Exponents : amount.val % Pow10(e) = 0 /\ amount.val \div Pow10(e) < 10

ToPackedFee(amount, onNil) ==
    IF amount.nil THEN [res |-> -1, err |-> onNil]
    ELSE IF ~IsPackable(amount) THEN [res |-> -1, err |-> "invalid amount"]
    ELSE LET e == CHOOSE x \in Exponents :
                    /\ amount.val % Pow10(x) = 0 /\ amount.val \div Pow10(x) < 10
                    /\ \A y \in Exponents :
                        (amount.val % Pow10(y) = 0 /\ amount.val \div Pow10(y) < 10) => x <= y
         IN  [res |-> (amount.val \div Pow10(e)) * Limits.PackedFeeExponents + e, err |-> "nil"]

\* CleanPackedFee: the largest amount with a packed form that is not larger; nil and
\* an error for an amount out of range
CleanPackedFee(amount) ==
    IF amount.nil \/ amount.val < 0 \/ amount.val > Limits.maxPackedFeeAmount
    THEN [res |-> NilBigInt, err |-> "invalid amount"]
    ELSE [res |-> BigInt(CHOOSE v \in 0 .. amount.val :
                            /\ IsPackable(BigInt(v))
                            /\ \A u \in (v + 1) .. amount.val : ~IsPackable(BigInt(u))),
          err |-> "nil"]

\* StringToBigInt on the decimal strings of the model
StringToBigInt(s) ==
    CASE s = "0" -> [res |-> BigInt(0), err |-> "nil"]
      [] s = "7" -> [res |-> BigInt(7), err |-> "nil"]
      [] s = "20" -> [res |-> BigInt(20), err |-> "nil"]
      [] s = "25" -> [res |-> BigInt(25), err |-> "nil"]
      [] s = "31" -> [res |-> BigInt(31), err |-> "nil"]
      [] s = "-1" -> [res |-> BigInt(-1), err |-> "nil"]
      [] OTHER -> [res |-> NilBigInt, err |-> "invalid string"]

\* WriteInt64IntoBuf: the big-endian bytes of the two's complement of a
RECURSIVE BigEndian(_, _)
BigEndian(a, n) ==
    IF n = 0 THEN <<>> ELSE BigEndian(a \div Limits.ByteValues, n - 1) \o <<a % Limits.ByteValues>>

WriteInt64IntoBuf(buf, a) == buf \o BigEndian(a, Limits.WordBytes)

\* PaddingAddressToBytes32: the bytes of the address, padded on the left
PaddingAddressToBytes32(addr) ==
    CASE addr = "0xA1" -> <<0, 1>>
      [] addr = "0xB2" -> <<0, 2>>
      [] OTHER -> <<0, 0>>

\* as ComputeWithdrawNftMsgHash, without the reset of the hasher
ComputeWithdrawNftMsgHashNoReset(txInfo, hf, onNil) ==
    LET packedFee == ToPackedFee(txInfo.GasFeeAssetAmount, onNil)
        b1 == WriteInt64IntoBuf(<<>>, txInfo.AccountIndex)
        b2 == WriteInt64IntoBuf(b1, txInfo.NftIndex)
        b3 == b2 \o PaddingAddressToBytes32(txInfo.ToAddress)
        b4 == WriteInt64IntoBuf(b3, txInfo.GasAccountIndex)
        b5 == WriteInt64IntoBuf(b4, txInfo.GasFeeAssetId)
        b6 == WriteInt64IntoBuf(b5, packedFee.res)
        b7 == WriteInt64IntoBuf(b6, txInfo.ExpiredAt)
        b8 == WriteInt64IntoBuf(b7, txInfo.Nonce)
        b9 == WriteInt64IntoBuf(b8, Limits.ChainId)
    IN  IF packedFee.err # "nil"
        THEN [msgHash |-> <<>>, err |-> packedFee.err, hFunc |-> hf]
        ELSE [msgHash |-> <<Sum(Write(hf, b9))>>, err |-> "nil", hFunc |-> Write(hf, b9)]

\* ComputeWithdrawNftMsgHash: reset, pack the fee, fill the buffer, write it, sum
ComputeWithdrawNftMsgHash(txInfo, hf, onNil) ==
    LET packedFee == ToPackedFee(txInfo.GasFeeAssetAmount, onNil)
        b1 == WriteInt64IntoBuf(<<>>, txInfo.AccountIndex)
        b2 == WriteInt64IntoBuf(b1, txInfo.NftIndex)
        b3 == b2 \o PaddingAddressToBytes32(txInfo.ToAddress)
        b4 == WriteInt64IntoBuf(b3, txInfo.GasAccountIndex)
        b5 == WriteInt64IntoBuf(b4, txInfo.GasFeeAssetId)
        b6 == WriteInt64IntoBuf(b5, packedFee.res)
        b7 == WriteInt64IntoBuf(b6, txInfo.ExpiredAt)
        b8 == WriteInt64IntoBuf(b7, txInfo.Nonce)
        b9 == WriteInt64IntoBuf(b8, Limits.ChainId)
    IN  IF packedFee.err # "nil"
        THEN [msgHash |-> <<>>, err |-> packedFee.err, hFunc |-> Reset(hf)]
        ELSE [msgHash |-> <<Sum(Write(Reset(hf), b9))>>, err |-> "nil",
              hFunc |-> Write(Reset(hf), b9)]

\* sk.Sign: the signature of sk on the message, made with the hasher as it is found
Sign(sk, msgHash, hf, fails) ==
    IF fails THEN [sig |-> <<>>, err |-> "unable to sign"]
    ELSE [sig |-> <<sk, HashOf(hf, msgHash)>>, err |-> "nil"]

\* a txInfo whose fields are all within their bounds
ValidTxInfo ==
    [AccountIndex |-> 1, CreatorAccountIndex |-> 2, CreatorAccountNameHash |-> <<1, 2>>,
     CreatorTreasuryRate |-> 1, NftIndex |-> 2, NftContentHash |-> <<3, 0>>,
     NftL1Address |-> "0xA1", NftL1TokenId |-> BigInt(1), CollectionId |-> 1,
     ToAddress |-> "0xB2", GasAccountIndex |-> 0, GasFeeAssetId |-> 2,
     GasFeeAssetAmount |-> BigInt(20), ExpiredAt |-> 1, Nonce |-> 0, Sig |-> <<>>]

NilTxInfo == [isNil |-> TRUE]

\* the other values a field takes
FieldValues ==
    [AccountIndex |-> {-1, 0, 2, 3}, CreatorAccountIndex |-> {-1, 0, 3},
     CreatorAccountNameHash |-> {<<1>>, <<0, 0>>}, CreatorTreasuryRate |-> {-1, 2, 3},
     NftIndex |-> {-1, 0, 3}, NftContentHash |-> {<<>>, <<1, 1>>},
     NftL1Address |-> {"", "zz", "0xB2"}, NftL1TokenId |-> {NilBigInt, BigInt(-1), BigInt(0)},
     CollectionId |-> {-1, 2, 3}, ToAddress |-> {"", "zz", "0xA1"},
     GasAccountIndex |-> {-1, 2, 3}, GasFeeAssetId |-> {-1, 0, 3},
     GasFeeAssetAmount |-> {NilBigInt, BigInt(-1), BigInt(0), BigInt(7), BigInt(25),
                            BigInt(30), BigInt(31)},
     ExpiredAt |-> {-1, 0, 2}, Nonce |-> {-1, 1}, Sig |-> {<<1, 1>>}]

FieldNames == DOMAIN FieldValues

ChangesOf(f) == {<<f, v>> : v \in FieldValues[f]}

AllChanges == UNION {ChangesOf(f) : f \in FieldNames}

Change(t, c) == [t EXCEPT ![c[1]] = c[2]]

\* the valid txInfo with one field changed, and with two
OneChanged == {Change(ValidTxInfo, c) : c \in AllChanges}

TxInfos ==
    {ValidTxInfo} \cup OneChanged
    \cup {Change(Change(ValidTxInfo, c), d) : c \in AllChanges, d \in AllChanges}

\* hashers as a caller may hand them over: new, with data written, used
PriorHashers == {NewMiMC, Write(NewMiMC, <<1, 2>>), [h |-> 3, data |-> <<>>]}

AmountStrings == {"0", "7", "20", "25", "31", "-1", "x"}

\* json.Unmarshal of the segment: an object gives its fields, "null" a nil
\* pointer and no error, anything else an error
Segments ==
    [json : {"object"}, AccountIndex : {0, 1}, NftIndex : {2}, ToAddress : {"0xA1", "zz"},
     GasAccountIndex : {1}, GasFeeAssetId : {0}, GasFeeAssetAmount : AmountStrings,
     ExpiredAt : {1}, Nonce : {3}]
    \cup [json : {"null", "malformed"}, AccountIndex : {0}, NftIndex : {0}, ToAddress : {""},
          GasAccountIndex : {0}, GasFeeAssetId : {0}, GasFeeAssetAmount : {""},
          ExpiredAt : {0}, Nonce : {0}]

NilOutcomes == {"panic", "nil amount"}

\* the txInfo ConstructWithdrawNftTxInfo builds: the other fields are the zero values
BuiltTxInfo(segmentFormat, gasFeeAmount) ==
    [AccountIndex |-> segmentFormat.AccountIndex, CreatorAccountIndex |-> 0,
     CreatorAccountNameHash |-> <<>>, CreatorTreasuryRate |-> 0,
     NftIndex |-> segmentFormat.NftIndex, NftContentHash |-> <<>>, NftL1Address |-> "",
     NftL1TokenId |-> NilBigInt, CollectionId |-> 0, ToAddress |-> segmentFormat.ToAddress,
     GasAccountIndex |-> segmentFormat.GasAccountIndex,
     GasFeeAssetId |-> segmentFormat.GasFeeAssetId, GasFeeAssetAmount |-> gasFeeAmount,
     ExpiredAt |-> segmentFormat.ExpiredAt, Nonce |-> segmentFormat.Nonce, Sig |-> <<>>]

ConstructResult(txInfo, err, hf) == [txInfo |-> txInfo, err |-> err, hFunc |-> hf]

\* ConstructWithdrawNftTxInfo: parse, convert, clean (the error is dropped), build,
\* hash with a new hasher, reset, sign
ConstructWithdrawNftTxInfo(sk, segment, signFails, onNil) ==
    IF segment.json = "malformed" THEN ConstructResult(NilTxInfo, "invalid json", NewMiMC)
    ELSE IF segment.json = "null" THEN ConstructResult(NilTxInfo, "panic", NewMiMC)
    ELSE
    LET converted == StringToBigInt(segment.GasFeeAssetAmount)
        gasFeeAmount == CleanPackedFee(converted.res).res
        txInfo == BuiltTxInfo(segment, gasFeeAmount)
        hashed == ComputeWithdrawNftMsgHash(txInfo, NewMiMC, onNil)
        signed == Sign(sk, hashed.msgHash, Reset(hashed.hFunc), signFails)
    IN  IF converted.err # "nil" THEN ConstructResult(NilTxInfo, converted.err, NewMiMC)
        ELSE IF hashed.err # "nil" THEN ConstructResult(NilTxInfo, hashed.err, hashed.hFunc)
        ELSE IF signed.err # "nil"
        THEN ConstructResult(NilTxInfo, signed.err, Reset(hashed.hFunc))
        ELSE ConstructResult([txInfo EXCEPT !.Sig = signed.sig], "nil", Reset(hashed.hFunc))

WithdrawNftInputs ==
    [op : {"validate"}, txInfo : TxInfos]
    \cup [op : {"hash"}, txInfo : OneChanged \cup {ValidTxInfo}, hf : PriorHashers,
          onNil : NilOutcomes]
    \cup [op : {"construct"}, sk : 1 .. 2, segment : Segments, signFails : BOOLEAN,
          onNil : NilOutcomes]

WithdrawNftInit ==
    /\ witness \in WithdrawNftInputs
    /\ tx = IF witness.op = "construct" THEN NilTxInfo ELSE witness.txInfo
    /\ pc = witness.op
    /\ idx = 0
    /\ acc = NoError
    /\ flags = NoFlags
    /\ hFunc = IF witness.op = "hash" THEN witness.hf ELSE NewMiMC
    /\ emitted = <<>>
    /\ violated = {}

\* a call either returns its error value or panics
Outcome(err) == IF err = "panic" THEN "panicked" ELSE "returned"

CallValidateWithdrawNftTxInfo ==
    /\ pc = "validate"
    /\ acc' = ValidateWithdrawNftTxInfo(tx)
    /\ pc' = "returned"
    /\ UNCHANGED <<witness, tx, idx, flags, hFunc, emitted, violated>>

CallComputeWithdrawNftMsgHash ==
    /\ pc = "hash"
    /\ LET r == ComputeWithdrawNftMsgHash(tx, hFunc, witness.onNil)
       IN  /\ emitted' = r.msgHash
           /\ acc' = Errorf("", r.err)
           /\ hFunc' = r.hFunc
           /\ pc' = Outcome(r.err)
    /\ UNCHANGED <<witness, tx, idx, flags, violated>>

CallConstructWithdrawNftTxInfo ==
    /\ pc = "construct"
    /\ LET r == ConstructWithdrawNftTxInfo(witness.sk, witness.segment, witness.signFails,
                                           witness.onNil)
       IN  /\ tx' = r.txInfo
           /\ acc' = Errorf("", r.err)
           /\ hFunc' = r.hFunc
           /\ pc' = Outcome(r.err)
    /\ UNCHANGED <<witness, idx, flags, emitted, violated>>

WithdrawNftNext ==
    \/ CallValidateWithdrawNftTxInfo
    \/ CallComputeWithdrawNftMsgHash
    \/ CallConstructWithdrawNftTxInfo

WithdrawNftSpec == WithdrawNftInit /\ [][WithdrawNftNext]_vars

\* the field of txInfo is within its bounds
FieldWithinBounds(t, f) ==
    CASE f \in {"AccountIndex", "CreatorAccountIndex", "GasAccountIndex"} ->
            Limits.minAccountIndex <= t[f] /\ t[f] <= Limits.maxAccountIndex
      [] f = "CreatorTreasuryRate" ->
            Limits.minTreasuryRate <= t[f] /\ t[f] <= Limits.maxTreasuryRate
      [] f = "NftIndex" -> Limits.minNftIndex <= t[f] /\ t[f] <= Limits.maxNftIndex
      [] f = "CollectionId" -> Limits.minCollectionId <= t[f] /\ t[f] <= Limits.maxCollectionId
      [] f = "GasFeeAssetId" -> Limits.minAssetId <= t[f] /\ t[f] <= Limits.maxAssetId
      [] f \in {"CreatorAccountNameHash", "NftContentHash"} -> Len(t[f]) = Limits.HashLength
      [] f = "NftL1Address" -> t[f] = "" \/ t[f] \in ValidAddresses
      [] f = "NftL1TokenId" -> t[f].nil \/ t[f].val >= 0
      [] f = "ToAddress" -> t[f] \in ValidAddresses
      [] f = "GasFeeAssetAmount" ->
            /\ ~t[f].nil
            /\ Limits.minPackedFeeAmount <= t[f].val
            /\ t[f].val <= Limits.maxPackedFeeAmount
      [] f = "ExpiredAt" -> t[f] > 0
      [] f = "Nonce" -> t[f] >= Limits.minNonce

\* the fields in the order in which the source checks them
CheckOrder ==
    <<"AccountIndex", "CreatorAccountIndex", "CreatorAccountNameHash", "CreatorTreasuryRate",
      "NftIndex", "NftContentHash", "NftL1Address", "NftL1TokenId", "CollectionId",
      "ToAddress", "GasAccountIndex", "GasFeeAssetId", "GasFeeAssetAmount", "ExpiredAt",
      "Nonce">>

\* the fields in the order in which the sentence lists them
ListedOrder ==
    <<"AccountIndex", "CreatorAccountIndex", "GasAccountIndex", "CreatorTreasuryRate",
      "NftIndex", "CollectionId", "GasFeeAssetId", "CreatorAccountNameHash",
      "NftContentHash", "NftL1Address", "NftL1TokenId", "ToAddress", "GasFeeAssetAmount",
      "ExpiredAt", "Nonce">>

AllWithinBounds(t) == \A k \in DOMAIN CheckOrder : FieldWithinBounds(t, CheckOrder[k])

\* the first field of the order that is out of its bounds
FirstViolated(t, order) ==
    order[CHOOSE k \in DOMAIN order :
            /\ ~FieldWithinBounds(t, order[k])
            /\ \A j \in 1 .. (k - 1) : FieldWithinBounds(t, order[j])]

Validated == pc = "returned" /\ witness.op = "validate"

\* the result of the validation is that of the fields taken in the given order
ValidatesInOrder(order) ==
    Validated =>
        /\ (acc = NoError) <=> AllWithinBounds(tx)
        /\ ~AllWithinBounds(tx) => acc.field = FirstViolated(tx, order)
        /\ tx = witness.txInfo

\* C29: ValidateWithdrawNftTxInfo returns nil exactly when every field is within
\* its bounds, otherwise the error of the first violated field in the order in
\* which the function checks them (AccountIndex, CreatorAccountIndex,
\* CreatorAccountNameHash, CreatorTreasuryRate, NftIndex, NftContentHash,
\* NftL1Address, NftL1TokenId, CollectionId, ToAddress, GasAccountIndex,
\* GasFeeAssetId, GasFeeAssetAmount, ExpiredAt, Nonce), and txInfo is unchanged.
C29_ValidateInCheckOrder == ValidatesInOrder(CheckOrder)

\* C29 as stated: the first violated field is taken in the order of the sentence,
\* which groups the fields by the kind of their bounds
C29_ValidateInListedOrder ==
    Validated =>
        /\ (acc = NoError) <=> AllWithinBounds(tx)
        /\ ~AllWithinBounds(tx) => acc.field = FirstViolated(tx, ListedOrder)
        /\ tx = witness.txInfo

\* two fields are out of bounds and the error names the one checked first
C29_Witness ==
    /\ Validated
    /\ ~FieldWithinBounds(tx, "CreatorAccountNameHash")
    /\ ~FieldWithinBounds(tx, "GasAccountIndex")
    /\ acc.field = "CreatorAccountNameHash"

\* the nine values the message hash is made of, in the order of the sentence
HashedFields(t, onNil) ==
    <<t.AccountIndex, t.NftIndex, t.ToAddress, t.GasAccountIndex, t.GasFeeAssetId,
      ToPackedFee(t.GasFeeAssetAmount, onNil).res, t.ExpiredAt, t.Nonce, Limits.ChainId>>

\* the digest of the nine values by a new hasher
DigestOf(fs) ==
    Absorb(0,
        BigEndian(fs[1], Limits.WordBytes) \o BigEndian(fs[2], Limits.WordBytes)
        \o PaddingAddressToBytes32(fs[3]) \o BigEndian(fs[4], Limits.WordBytes)
        \o BigEndian(fs[5], Limits.WordBytes) \o BigEndian(fs[6], Limits.WordBytes)
        \o BigEndian(fs[7], Limits.WordBytes) \o BigEndian(fs[8], Limits.WordBytes)
        \o BigEndian(fs[9], Limits.WordBytes))

\* ComputeWithdrawNftMsgHash returned a hash: it is the digest of the nine values,
\* whatever the hasher held and whatever the other fields are
HashIsOfNineFields ==
    (pc = "returned" /\ witness.op = "hash" /\ acc.msg = "nil") =>
        emitted = <<DigestOf(HashedFields(tx, witness.onNil))>>

\* the steps of ConstructWithdrawNftTxInfo that can fail
ParsingFails == witness.segment.json = "malformed"
ConversionFails == StringToBigInt(witness.segment.GasFeeAssetAmount).err # "nil"
CleaningFails ==
    /\ ~ConversionFails
    /\ CleanPackedFee(StringToBigInt(witness.segment.GasFeeAssetAmount).res).err # "nil"

Constructing == witness.op = "construct" /\ witness.segment.json # "null"

\* ConstructWithdrawNftTxInfo returned a txInfo: its signature is that of the digest
\* of the nine values, made with a reset hasher
SignsTheHash ==
    (Constructing /\ pc = "returned" /\ acc.msg = "nil") =>
        /\ tx # NilTxInfo
        /\ tx.Sig = <<witness.sk,
                      HashOf(NewMiMC, <<DigestOf(HashedFields(tx, witness.onNil))>>)>>

\* a failing step of ConstructWithdrawNftTxInfo ends the call with nil and an error
FailureReturnsError(failing) ==
    (Constructing /\ pc \notin {"construct"} /\ failing) =>
        /\ pc = "returned"
        /\ tx = NilTxInfo
        /\ acc.msg # "nil"

\* C30: the message hash is the digest of the nine fields by a reset hasher, the
\* constructor signs it after another reset, and when parsing, converting or
\* cleaning the amount, hashing or signing fails the constructor returns nil and
\* the error.
C30_HashAndConstruct ==
    /\ HashIsOfNineFields
    /\ SignsTheHash
    /\ FailureReturnsError(ParsingFails \/ ConversionFails \/ CleaningFails)
    /\ FailureReturnsError(witness.signFails /\ ~CleaningFails)
    /\ (Constructing /\ pc \notin {"construct"}) =>
            \/ pc = "returned" /\ tx # NilTxInfo /\ acc.msg = "nil"
            \/ pc = "returned" /\ tx = NilTxInfo /\ acc.msg # "nil"

====
